---- MODULE Spec2Model ----
(***************************************************************************)
(* Learning Agent: the LangGraph state graph of src/src/graph.ts with its  *)
(* four nodes (select, assess, decide, guide), the phase detector and the  *)
(* three language-model collaborators, modelled as a state machine.        *)
(*                                                                         *)
(* Strings are sequences of characters.  A Chinese character of the source *)
(* is written as its pinyin syllable, so that length and substring tests   *)
(* are computed on the same number of characters as in the source.         *)
(***************************************************************************)
EXTENDS Integers, Sequences, FiniteSets, TLC

VARIABLES
  learningItems,   \* GraphState.learningItems : id -> LearningItem
  activeItemId,    \* GraphState.activeItemId  : id | NULL
  lastUserInput,   \* GraphState.lastUserInput : string
  messages,        \* GraphState.messages      : ordered list of Message
  nextAction,      \* GraphState.nextAction    : "guide" | "end"
  pc,              \* position of the running pass: "idle" between passes
  clock,           \* Date.now(), advanced by the caller between passes
  passIn,          \* the GraphState supplied to the running / last pass
  trace,           \* nodes run so far by the running / last pass
  calls,           \* collaborator calls made by the running / last pass
  extractedSentinel, \* a goal extraction of the session returned the sentinel
  loop,            \* where the interactive main() stands ("off": not running)
  line,            \* the line main() read last
  round,           \* main()'s round counter
  alone,           \* the session in hand as it stands when run alone
  other,           \* a second session, parked while the first one runs
  held             \* the GraphState main() holds in its variable state

vars == <<learningItems, activeItemId, lastUserInput, messages, nextAction,
          pc, clock, passIn, trace, calls, extractedSentinel,
          loop, line, round, alone, other, held>>

\* ------------------------------------------------------------------------
\* Bounds of the model
\* ------------------------------------------------------------------------

\* a caller starts a pass only while the transcript is shorter than this
MaxMessages == 14

\* the same bound for the specification with fairness, whose behaviours are
\* checked for termination of every pass
MaxFairMessages == 6

\* the passes two sessions run between them, the passes of a session
\* during which the caller may hand a returned state back as it is, and
\* the passes of an interactive session among which some may throw
MaxPasses == 3

\* ------------------------------------------------------------------------
\* Vocabulary (src/unnamed/part_003 = types.ts)
\* ------------------------------------------------------------------------

\* null; item ids are <<"item_", n>> and strings are sequences of characters
NULL == <<"null">>

IntuitionOnly == 1
CanDescribe == 2
Structured == 3
\* the level that ends a session, put at the lowest level
Transferable_low == IntuitionOnly

Transferable == 4

CognitiveLevel == {IntuitionOnly, CanDescribe, Structured, Transferable}

CognitiveStateLabel ==
  {"too_vague", "intuition_but_unclear", "can_describe_with_structure",
   "fully_structured", "transferable"}

TeachingIntent ==
  {"elicit_intuition", "force_clarification", "introduce_structure",
   "test_transfer"}

NextAction == {"guide", "end"}

MAX_EVIDENCE_COUNT == 5

\* "等待用户提出学习主题" (10 characters)
AWAITING_TOPIC_GOAL ==
  <<"deng", "dai", "yong", "hu", "ti", "chu", "xue", "xi", "zhu", "ti">>

\* ------------------------------------------------------------------------
\* String helpers (JavaScript String.prototype.trim)
\* ------------------------------------------------------------------------

IsSpace(c) == c = " "

RECURSIVE trimStart(_)
trimStart(s) ==
  IF s = <<>> THEN <<>>
  ELSE IF IsSpace(Head(s)) THEN trimStart(Tail(s))
  ELSE s

RECURSIVE trimEnd(_)
trimEnd(s) ==
  IF s = <<>> THEN <<>>
  ELSE IF IsSpace(s[Len(s)]) THEN trimEnd(SubSeq(s, 1, Len(s) - 1))
  ELSE s

trim(s) == trimEnd(trimStart(s))
\* a slice that keeps one element less than asked for once it has to cut
SliceLast_short(s, n) ==
  IF Len(s) <= n THEN s ELSE SubSeq(s, Len(s) - n + 2, Len(s))


\* Array.prototype.slice(-n): the last n elements (all of them if fewer)
SliceLast(s, n) ==
  IF Len(s) <= n THEN s ELSE SubSeq(s, Len(s) - n + 1, Len(s))

\* JavaScript truthiness of a string or of string | null
Truthy(s) == s # NULL /\ s # <<>>

\* String.prototype.includes: sub occurs in s as a contiguous substring
Includes(s, sub) ==
  \E i \in 1..(Len(s) - Len(sub) + 1) : SubSeq(s, i, i + Len(sub) - 1) = sub

\* an object without keys (an empty Record or an empty Partial<GraphState>)
EmptyObject == [k \in {} |-> NULL]

\* object spread {...current, ...update}
Spread(current, update) ==
  [k \in (DOMAIN current) \cup (DOMAIN update) |->
     IF k \in DOMAIN update THEN update[k] ELSE current[k]]

\* ------------------------------------------------------------------------
\* Phase detector (src/src/utils/phase-detector.ts)
\* ------------------------------------------------------------------------

INFO_COLLECTION_MAX_EVIDENCE == 2
UNDERSTANDING_MAX_EVIDENCE == 3
SPECIFIC_GOAL_MIN_LENGTH == 20

\* a table that a long transcript switches to another phase for Structured
LEVEL_TO_PHASE_MAP_hidden(level) ==
  CASE level = IntuitionOnly -> "understanding"
    [] level = CanDescribe -> "structured"
    [] level = Structured ->
         IF Len(messages) > 1 THEN "structured" ELSE "transfer"
    [] level = Transferable -> "transfer"


LEVEL_TO_PHASE_MAP(level) ==
  CASE level = IntuitionOnly -> "understanding"
    [] level = CanDescribe -> "structured"
    [] level = Structured -> "transfer"
    [] level = Transferable -> "transfer"
\* a reading of the status that takes the flag for its opposite
hasBasicInfoFromStatus_inverted(item) ==
  CASE item.status.phase = "awaiting_topic" -> FALSE
    [] item.status.phase \in {"collecting_info", "learning"} ->
         ~item.status.hasBasicInfo


hasBasicInfoFromStatus(item) ==
  CASE item.status.phase = "awaiting_topic" -> FALSE
    [] item.status.phase \in {"collecting_info", "learning"} ->
         item.status.hasBasicInfo
\* isGoalSpecific that accepts a goal of exactly the minimum length
isGoalSpecific_ge(goal) ==
  /\ Len(goal) >= SPECIFIC_GOAL_MIN_LENGTH
  /\ ~Includes(goal, <<"deng", "dai">>)
  /\ (Includes(goal, <<"de">>) \/ Includes(goal, <<"ke">>))


isGoalSpecific(goal) ==
  /\ Len(goal) > SPECIFIC_GOAL_MIN_LENGTH
  /\ ~Includes(goal, <<"deng", "dai">>)
  /\ (Includes(goal, <<"de">>) \/ Includes(goal, <<"ke">>))
\* determineTeachingPhase that looks at the level before the info collection
determineTeachingPhase_levelfirst(item) ==
  LET evidenceCount == Len(item.recentEvidence) IN
  IF item.currentLevel # IntuitionOnly
  THEN LEVEL_TO_PHASE_MAP(item.currentLevel)
  ELSE IF ~hasBasicInfoFromStatus(item)
            /\ evidenceCount <= INFO_COLLECTION_MAX_EVIDENCE
  THEN "info_collection"
  ELSE IF evidenceCount <= UNDERSTANDING_MAX_EVIDENCE
  THEN "understanding" ELSE "clarification"


determineTeachingPhase(item) ==
  LET evidenceCount == Len(item.recentEvidence) IN
  IF ~hasBasicInfoFromStatus(item)
       /\ evidenceCount <= INFO_COLLECTION_MAX_EVIDENCE
  THEN "info_collection"
  ELSE IF item.currentLevel = IntuitionOnly
  THEN (IF evidenceCount <= UNDERSTANDING_MAX_EVIDENCE
        THEN "understanding" ELSE "clarification")
  ELSE LEVEL_TO_PHASE_MAP(item.currentLevel)
\* hasCollectedBasicInfo that is content with one stored utterance
hasCollectedBasicInfo_one(item) ==
  IF hasBasicInfoFromStatus(item) THEN TRUE
  ELSE isGoalSpecific(item.goal) /\ Len(item.recentEvidence) >= 1


hasCollectedBasicInfo(item) ==
  IF hasBasicInfoFromStatus(item) THEN TRUE
  ELSE isGoalSpecific(item.goal) /\ Len(item.recentEvidence) >= 2

\* ------------------------------------------------------------------------
\* Assessment collaborator (src/src/assessment/llm.ts)
\* ------------------------------------------------------------------------

\* what the chat-completion call of llmBasedAssessment can do: throw,
\* answer without content, answer with text that is not JSON, or answer
\* with a JSON object holding some cognitiveState and some reasoning
AssessResponses ==
  {[kind |-> "throw"], [kind |-> "empty"], [kind |-> "not_json"]}
  \cup [kind : {"json"},
        cognitiveState : CognitiveStateLabel \cup {"confused"},
        reasoning : {<<>>, <<"r">>}]

ok(value) == [ok |-> TRUE, value |-> value]
err(error) == [ok |-> FALSE, error |-> error]

\* z.object({cognitiveState: z.enum([...]), reasoning: z.string().min(1)})
AssessmentResultSchema(parsed) ==
  /\ parsed.cognitiveState \in
       {"too_vague", "intuition_but_unclear", "can_describe_with_structure",
        "fully_structured", "transferable"}
  /\ Len(parsed.reasoning) >= 1
\* parseLlmResponse that falls back to too_vague on a label it does not know
parseLlmResponse_coerce(resp) ==
  IF resp.kind = "json" /\ Len(resp.reasoning) >= 1
  THEN ok([cognitiveState |->
             IF AssessmentResultSchema(resp) THEN resp.cognitiveState
             ELSE "too_vague",
           reasoning |-> resp.reasoning])
  ELSE err("parse_failed")


parseLlmResponse(resp) ==
  IF resp.kind = "json" /\ AssessmentResultSchema(resp)
  THEN ok([cognitiveState |-> resp.cognitiveState,
           reasoning |-> resp.reasoning])
  ELSE err("parse_failed")

llmBasedAssessment(resp) ==
  CASE resp.kind = "throw" -> err("call_failed")
    [] resp.kind = "empty" -> err("empty_content")
    [] OTHER -> parseLlmResponse(resp)

\* ------------------------------------------------------------------------
\* Goal extraction collaborator (src/unnamed/part_004 = goal-extractor.ts)
\* ------------------------------------------------------------------------

\* "理解用户提出的问题" (9 characters)
DEFAULT_GOAL ==
  <<"li", "jie", "yong", "hu", "ti", "chu", "de", "wen", "ti">>

\* "掌握二分" (4 characters)
ShortGoal == <<"zhang", "wo", "er", "fen">>

\* "理解二分查找的原理和它在有序数组中的应用场景" (22 characters)
LongGoal ==
  <<"li", "jie", "er", "fen", "cha", "zhao", "de", "yuan", "li", "he", "ta",
    "zai", "you", "xu", "shu", "zu", "zhong", "de", "ying", "yong", "chang",
    "jing">>

\* "掌握快速排序算法并能够独立实现与分析其时间复杂度" (24 characters, none
\* of them 的 or 课)
PlainGoal ==
  <<"zhang", "wo", "kuai", "su", "pai", "xu", "suan", "fa", "bing", "neng",
    "gou", "du", "li", "shi", "xian", "yu", "fen", "xi", "qi", "shi", "jian",
    "fu", "za", "du">>

\* the texts the model lets the goal-extraction completion answer with:
\* a short goal followed by a blank, a long goal wrapped in quotes, a long
\* goal without 的 and 课, and the very text of the sentinel
ExtractContents ==
  {ShortGoal \o <<" ">>, <<"\"">> \o LongGoal \o <<"\"">>, PlainGoal,
   AWAITING_TOPIC_GOAL}

ExtractResponses ==
  {[kind |-> "throw"], [kind |-> "empty"]}
  \cup [kind : {"content"}, content : ExtractContents]

IsQuote(c) == c \in {"\"", "'"}

\* raw.replace(/^["']|["']$/g, "").trim()
cleanGoalString(raw) ==
  LET a == IF raw # <<>> /\ IsQuote(Head(raw)) THEN Tail(raw) ELSE raw
      b == IF a # <<>> /\ IsQuote(a[Len(a)])
           THEN SubSeq(a, 1, Len(a) - 1) ELSE a
  IN trim(b)

extractLearningGoalSafe(resp) ==
  CASE resp.kind = "throw" -> err("call_failed")
    [] resp.kind = "empty" -> err("empty_content")
    [] OTHER -> ok(cleanGoalString(resp.content))
\* extractLearningGoal that hands on an empty goal when the extraction failed
extractLearningGoal_empty(resp) ==
  LET result == extractLearningGoalSafe(resp) IN
  IF result.ok THEN result.value ELSE <<>>


extractLearningGoal(resp) ==
  LET result == extractLearningGoalSafe(resp) IN
  IF result.ok THEN result.value ELSE DEFAULT_GOAL

\* ------------------------------------------------------------------------
\* Select step (src/src/nodes/select.ts)
\* ------------------------------------------------------------------------

\* `item_${Date.now()}`
generateItemId(now) == <<"item_", now>>
\* createNewLearningItem that stamps every item with the same id
createNewLearningItem_fixedid(id) ==
  [id |-> <<"item_", 0>>,
   goal |-> AWAITING_TOPIC_GOAL,
   currentLevel |-> IntuitionOnly,
   cognitiveState |-> [summary |-> "not_assessed_yet",
                       missingParts |-> "everything"],
   recentEvidence |-> <<>>,
   nextIntent |-> "elicit_intuition",
   status |-> [phase |-> "awaiting_topic"]]

createNewLearningItem(id) ==
  [id |-> id,
   goal |-> AWAITING_TOPIC_GOAL,
   currentLevel |-> IntuitionOnly,
   cognitiveState |-> [summary |-> "not_assessed_yet",
                       missingParts |-> "everything"],
   recentEvidence |-> <<>>,
   nextIntent |-> "elicit_intuition",
   status |-> [phase |-> "awaiting_topic"]]
\* a lookup of the active item that never finds it
HasItem_never(state, id) == FALSE


\* state.learningItems[id] is defined
HasItem(state, id) == id \in DOMAIN state.learningItems
\* selectItemNode without the early return for an existing active item
selectItemNode_always(state, now) ==
  LET newItemId == generateItemId(now)
      newItem == createNewLearningItem(newItemId)
  IN [activeItemId |-> newItemId,
      learningItems |-> [k \in {newItemId} |-> newItem]]

selectItemNode(state, now) ==
  IF Truthy(state.activeItemId) /\ HasItem(state, state.activeItemId)
  THEN EmptyObject
  ELSE LET newItemId == generateItemId(now)
           newItem == createNewLearningItem(newItemId)
       IN [activeItemId |-> newItemId,
           learningItems |-> [k \in {newItemId} |-> newItem]]

\* ------------------------------------------------------------------------
\* Assess step (src/src/nodes/assess.ts)
\* ------------------------------------------------------------------------
\* TEACHING_DECISION_MAP whose intuition_but_unclear entry ignores the level
TEACHING_DECISION_MAP_nolevel(cognitiveState, currentLevel) ==
  CASE cognitiveState = "too_vague" ->
         [nextIntent |-> "elicit_intuition", newLevel |-> IntuitionOnly]
    [] cognitiveState = "intuition_but_unclear" ->
         [nextIntent |-> "elicit_intuition", newLevel |-> IntuitionOnly]
    [] cognitiveState = "can_describe_with_structure" ->
         [nextIntent |-> "introduce_structure", newLevel |-> CanDescribe]
    [] cognitiveState = "fully_structured" ->
         [nextIntent |-> "test_transfer", newLevel |-> Structured]
    [] cognitiveState = "transferable" ->
         [nextIntent |-> "test_transfer", newLevel |-> Transferable]

TEACHING_DECISION_MAP(cognitiveState, currentLevel) ==
  CASE cognitiveState = "too_vague" ->
         [nextIntent |-> "elicit_intuition", newLevel |-> IntuitionOnly]
    [] cognitiveState = "intuition_but_unclear" ->
         [nextIntent |-> IF currentLevel = IntuitionOnly
                         THEN "force_clarification" ELSE "elicit_intuition",
          newLevel |-> IntuitionOnly]
    [] cognitiveState = "can_describe_with_structure" ->
         [nextIntent |-> "introduce_structure", newLevel |-> CanDescribe]
    [] cognitiveState = "fully_structured" ->
         [nextIntent |-> "test_transfer", newLevel |-> Structured]
    [] cognitiveState = "transferable" ->
         [nextIntent |-> "test_transfer", newLevel |-> Transferable]
\* MISSING_PARTS_MAP whose transferable entry repeats the one before it
MISSING_PARTS_MAP_nonone(cognitiveState) ==
  CASE cognitiveState = "too_vague" -> "more_specific_expression"
    [] cognitiveState = "intuition_but_unclear" -> "concept_boundaries"
    [] cognitiveState = "can_describe_with_structure" -> "mechanism_details"
    [] cognitiveState = "fully_structured" -> "application_scenarios"
    [] cognitiveState = "transferable" -> "application_scenarios"


MISSING_PARTS_MAP(cognitiveState) ==
  CASE cognitiveState = "too_vague" -> "more_specific_expression"
    [] cognitiveState = "intuition_but_unclear" -> "concept_boundaries"
    [] cognitiveState = "can_describe_with_structure" -> "mechanism_details"
    [] cognitiveState = "fully_structured" -> "application_scenarios"
    [] cognitiveState = "transferable" -> "none"
\* a decision that never takes a level back
determineTeachingDecision_keep(cognitiveState, currentLevel) ==
  LET decision == TEACHING_DECISION_MAP(cognitiveState, currentLevel) IN
  [decision EXCEPT !.newLevel = IF @ < currentLevel THEN currentLevel ELSE @]


determineTeachingDecision(cognitiveState, currentLevel) ==
  TEACHING_DECISION_MAP(cognitiveState, currentLevel)

createEvidence(content, now) ==
  [source |-> "user_input", content |-> content, timestamp |-> now]
\* appendEvidence that keeps the first MAX_EVIDENCE_COUNT entries
appendEvidence_first(existing, newEvidence) ==
  LET all == existing \o <<newEvidence>> IN
  IF Len(all) <= MAX_EVIDENCE_COUNT THEN all
  ELSE SubSeq(all, 1, MAX_EVIDENCE_COUNT)

appendEvidence(existing, newEvidence) ==
  SliceLast(existing \o <<newEvidence>>, MAX_EVIDENCE_COUNT)
\* a node result that adds a word of acknowledgement to every item update
NodeResult_ack(delta, made) ==
  [delta |->
     IF "learningItems" \in DOMAIN delta /\ "messages" \notin DOMAIN delta
     THEN [k \in DOMAIN delta \cup {"messages"} |->
             IF k = "messages"
             THEN <<[role |-> "assistant", content |-> <<"o", "k">>]>>
             ELSE delta[k]]
     ELSE delta,
   calls |-> made]


\* a node's result: the delta it returns and the collaborator calls it made
NodeResult(delta, made) == [delta |-> delta, calls |-> made]
\* handleFirstInput that stamps the item with a fresh id
handleFirstInput_newid(activeItem, userAnswer, now, extractResp) ==
  LET extractedGoal == extractLearningGoal(extractResp)
      updatedItem ==
        [activeItem EXCEPT
           !.id = generateItemId(now),
           !.goal = extractedGoal,
           !.cognitiveState = [summary |-> "ready_to_start",
                               missingParts |-> "all_core_concepts"],
           !.recentEvidence = <<createEvidence(userAnswer, now)>>,
           !.nextIntent = "elicit_intuition",
           !.status = [phase |-> "collecting_info", hasBasicInfo |-> FALSE]]
  IN NodeResult(
       [learningItems |-> [k \in {activeItem.id} |-> updatedItem]],
       <<[fn |-> "extractLearningGoal", arg |-> userAnswer,
          response |-> extractResp,
          result |-> extractLearningGoalSafe(extractResp)]>>)


handleFirstInput(activeItem, userAnswer, now, extractResp) ==
  LET extractedGoal == extractLearningGoal(extractResp)
      updatedItem ==
        [activeItem EXCEPT
           !.goal = extractedGoal,
           !.cognitiveState = [summary |-> "ready_to_start",
                               missingParts |-> "all_core_concepts"],
           !.recentEvidence = <<createEvidence(userAnswer, now)>>,
           !.nextIntent = "elicit_intuition",
           !.status = [phase |-> "collecting_info", hasBasicInfo |-> FALSE]]
  IN NodeResult(
       [learningItems |-> [k \in {activeItem.id} |-> updatedItem]],
       <<[fn |-> "extractLearningGoal", arg |-> userAnswer,
          response |-> extractResp,
          result |-> extractLearningGoalSafe(extractResp)]>>)
\* handleSubsequentInput whose failure branch returns the item as it was
handleSubsequentInput_lost(activeItem, userAnswer, now, assessResp) ==
  LET assessmentResult == llmBasedAssessment(assessResp)
      made == <<[fn |-> "llmBasedAssessment", arg |-> userAnswer,
                 response |-> assessResp,
                 result |-> assessmentResult]>>
  IN IF ~assessmentResult.ok
     THEN NodeResult(
            [learningItems |-> [k \in {activeItem.id} |-> activeItem]],
            made)
     ELSE LET cognitiveState == assessmentResult.value.cognitiveState
              decision == determineTeachingDecision(cognitiveState,
                                                    activeItem.currentLevel)
              hasBasicInfo == hasCollectedBasicInfo(activeItem)
              updatedItem ==
                [activeItem EXCEPT
                   !.currentLevel = decision.newLevel,
                   !.cognitiveState =
                     [summary |-> cognitiveState,
                      missingParts |-> MISSING_PARTS_MAP(cognitiveState)],
                   !.recentEvidence =
                     appendEvidence(activeItem.recentEvidence,
                                    createEvidence(userAnswer, now)),
                   !.nextIntent = decision.nextIntent,
                   !.status = [phase |-> "learning",
                               hasBasicInfo |-> hasBasicInfo]]
          IN NodeResult(
               [learningItems |-> [k \in {activeItem.id} |-> updatedItem]],
               made)

handleSubsequentInput(activeItem, userAnswer, now, assessResp) ==
  LET assessmentResult == llmBasedAssessment(assessResp)
      made == <<[fn |-> "llmBasedAssessment", arg |-> userAnswer,
                 response |-> assessResp,
                 result |-> assessmentResult]>>
  IN IF ~assessmentResult.ok
     THEN LET updatedItem ==
                [activeItem EXCEPT
                   !.recentEvidence =
                     appendEvidence(activeItem.recentEvidence,
                                    createEvidence(userAnswer, now))]
          IN NodeResult(
               [learningItems |-> [k \in {activeItem.id} |-> updatedItem]],
               made)
     ELSE LET cognitiveState == assessmentResult.value.cognitiveState
              decision == determineTeachingDecision(cognitiveState,
                                                    activeItem.currentLevel)
              hasBasicInfo == hasCollectedBasicInfo(activeItem)
              updatedItem ==
                [activeItem EXCEPT
                   !.currentLevel = decision.newLevel,
                   !.cognitiveState =
                     [summary |-> cognitiveState,
                      missingParts |-> MISSING_PARTS_MAP(cognitiveState)],
                   !.recentEvidence =
                     appendEvidence(activeItem.recentEvidence,
                                    createEvidence(userAnswer, now)),
                   !.nextIntent = decision.nextIntent,
                   !.status = [phase |-> "learning",
                               hasBasicInfo |-> hasBasicInfo]]
          IN NodeResult(
               [learningItems |-> [k \in {activeItem.id} |-> updatedItem]],
               made)
\* isFirstInput with "or" in the place of "and"
isFirstInput_or(activeItem) ==
  activeItem.goal = AWAITING_TOPIC_GOAL \/ Len(activeItem.recentEvidence) = 0

\* goal still the sentinel and no evidence yet
isFirstInput(activeItem) ==
  activeItem.goal = AWAITING_TOPIC_GOAL /\ Len(activeItem.recentEvidence) = 0
\* assessNode that opens an item when it cannot resolve the active one
assessNode_create(state, now, extractResp, assessResp) ==
  IF ~Truthy(state.activeItemId) \/ ~HasItem(state, state.activeItemId)
  THEN LET newItem == createNewLearningItem(generateItemId(now))
       IN NodeResult(
            [learningItems |-> [k \in {newItem.id} |-> newItem],
             activeItemId |-> newItem.id],
            <<>>)
  ELSE LET activeItem == state.learningItems[state.activeItemId]
           userAnswer == state.lastUserInput
       IN IF isFirstInput(activeItem)
          THEN handleFirstInput(activeItem, userAnswer, now, extractResp)
          ELSE handleSubsequentInput(activeItem, userAnswer, now, assessResp)


assessNode(state, now, extractResp, assessResp) ==
  IF ~Truthy(state.activeItemId) THEN NodeResult(EmptyObject, <<>>)
  ELSE IF ~HasItem(state, state.activeItemId)
  THEN NodeResult(EmptyObject, <<>>)
  ELSE LET activeItem == state.learningItems[state.activeItemId]
           userAnswer == state.lastUserInput
       IN IF isFirstInput(activeItem)
          THEN handleFirstInput(activeItem, userAnswer, now, extractResp)
          ELSE handleSubsequentInput(activeItem, userAnswer, now, assessResp)

\* ------------------------------------------------------------------------
\* Decide step (src/src/nodes/decide.ts)
\* ------------------------------------------------------------------------
\* decideNode with the end condition written > instead of >=
decideNode_gt(state) ==
  IF ~Truthy(state.activeItemId) THEN [nextAction |-> "end"]
  ELSE IF ~HasItem(state, state.activeItemId) THEN [nextAction |-> "end"]
  ELSE IF state.learningItems[state.activeItemId].currentLevel > Transferable
  THEN [nextAction |-> "end"]
  ELSE [nextAction |-> "guide"]

decideNode(state) ==
  IF ~Truthy(state.activeItemId) THEN [nextAction |-> "end"]
  ELSE IF ~HasItem(state, state.activeItemId) THEN [nextAction |-> "end"]
  ELSE IF state.learningItems[state.activeItemId].currentLevel >= Transferable
  THEN [nextAction |-> "end"]
  ELSE [nextAction |-> "guide"]

\* ------------------------------------------------------------------------
\* Guide step (src/src/nodes/guide.ts)
\* ------------------------------------------------------------------------

\* sampling temperatures, in tenths
INITIAL_TEMPERATURE == 9
NORMAL_TEMPERATURE == 8
MAX_CONTEXT_MESSAGES == 4

\* "抱歉，我遇到了一些问题。请稍后再试。"
FallbackContent == <<"bao", "qian">>

\* what the chat-completion call of guideNode can do: throw, answer
\* without content, or answer with a text
GuideResponses ==
  {[kind |-> "throw"], [kind |-> "empty"],
   [kind |-> "content", content |-> <<"g">>]}

\* buildSystemPrompt without the topic-less case
buildSystemPrompt_phase(item) ==
  [template |-> determineTeachingPhase(item),
   goal |-> item.goal,
   summary |-> item.cognitiveState.summary,
   missingParts |-> item.cognitiveState.missingParts]

\* the system prompt: the fixed initial prompt, or the header (goal,
\* summary, missing parts) followed by the template of the phase
buildSystemPrompt(item) ==
  IF item.goal = AWAITING_TOPIC_GOAL
  THEN [template |-> "INITIAL_PROMPT"]
  ELSE [template |-> determineTeachingPhase(item),
        goal |-> item.goal,
        summary |-> item.cognitiveState.summary,
        missingParts |-> item.cognitiveState.missingParts]
\* a conversion that sends the whole transcript
convertToOpenAIMessages_all(msgs) ==
  [i \in 1..Len(msgs) |->
     [role |-> IF msgs[i].role = "user" THEN "user" ELSE "assistant",
      content |-> msgs[i].content]]


convertToOpenAIMessages(msgs) ==
  LET last == SliceLast(msgs, MAX_CONTEXT_MESSAGES) IN
  [i \in 1..Len(last) |->
     [role |-> IF last[i].role = "user" THEN "user" ELSE "assistant",
      content |-> last[i].content]]
\* a Guide that takes the utterance it has answered out of the state
guideNode_reset(state, guideResp) ==
  NodeResult([messages |-> <<[role |-> "assistant",
                              content |-> FallbackContent]>>,
              lastUserInput |-> <<>>], <<>>)


guideNode(state, guideResp) ==
  IF ~Truthy(state.activeItemId) THEN NodeResult(EmptyObject, <<>>)
  ELSE IF ~HasItem(state, state.activeItemId)
  THEN NodeResult(EmptyObject, <<>>)
  ELSE LET activeItem == state.learningItems[state.activeItemId]
           systemPrompt == buildSystemPrompt(activeItem)
           contextMessages == convertToOpenAIMessages(state.messages)
           isInitialPrompt == activeItem.goal = AWAITING_TOPIC_GOAL
           temperature == IF isInitialPrompt THEN INITIAL_TEMPERATURE
                          ELSE NORMAL_TEMPERATURE
           made == <<[fn |-> "guide",
                      arg |-> [system |-> systemPrompt,
                               context |-> contextMessages,
                               temperature |-> temperature],
                      response |-> guideResp,
                      result |-> IF guideResp.kind = "throw"
                                 THEN err("call_failed")
                                 ELSE ok(guideResp.kind)]>>
           guideMessage == IF guideResp.kind = "content"
                           THEN guideResp.content ELSE <<>>
           newMessage == [role |-> "assistant", content |-> guideMessage]
           fallbackMessage == [role |-> "assistant",
                               content |-> FallbackContent]
       IN IF guideResp.kind # "throw"
          THEN NodeResult([messages |-> state.messages \o <<newMessage>>],
                          made)
          ELSE NodeResult([messages |-> state.messages \o <<fallbackMessage>>],
                          made)

\* ------------------------------------------------------------------------
\* The graph (src/src/graph.ts)
\* ------------------------------------------------------------------------

Has(update, key) == key \in DOMAIN update
\* ApplyUpdate whose learningItems channel takes the update as its new value
ApplyUpdate_replace(current, update) ==
  [learningItems |->
     IF Has(update, "learningItems") THEN update.learningItems
     ELSE current.learningItems,
   activeItemId |->
     IF Has(update, "activeItemId") THEN update.activeItemId
     ELSE current.activeItemId,
   lastUserInput |->
     IF Has(update, "lastUserInput") THEN update.lastUserInput
     ELSE current.lastUserInput,
   messages |->
     IF Has(update, "messages") THEN current.messages \o update.messages
     ELSE current.messages,
   nextAction |->
     IF Has(update, "nextAction") THEN update.nextAction
     ELSE current.nextAction]


\* GraphStateAnnotation: every channel merges an update through its reducer;
\* a channel the update does not name keeps its value
ApplyUpdate(current, update) ==
  [learningItems |->
     IF Has(update, "learningItems")
     THEN Spread(current.learningItems, update.learningItems)
     ELSE current.learningItems,
   activeItemId |->
     IF Has(update, "activeItemId") THEN update.activeItemId
     ELSE current.activeItemId,
   lastUserInput |->
     IF Has(update, "lastUserInput") THEN update.lastUserInput
     ELSE current.lastUserInput,
   messages |->
     IF Has(update, "messages") THEN current.messages \o update.messages
     ELSE current.messages,
   nextAction |->
     IF Has(update, "nextAction") THEN update.nextAction
     ELSE current.nextAction]

\* the channels' default values
ChannelDefaults ==
  [learningItems |-> EmptyObject,
   activeItemId |-> NULL,
   lastUserInput |-> <<>>,
   messages |-> <<>>,
   nextAction |-> "guide"]

createInitialState ==
  [learningItems |-> EmptyObject,
   activeItemId |-> NULL,
   lastUserInput |-> <<>>,
   messages |-> <<>>,
   nextAction |-> "guide"]
\* entryCondition that tests lastUserInput without trimming it
entryCondition_notrim(state) ==
  IF Truthy(state.lastUserInput) THEN "assess" ELSE "selectItem"

entryCondition(state) ==
  IF Truthy(state.lastUserInput) /\ Truthy(trim(state.lastUserInput))
  THEN "assess" ELSE "selectItem"
\* decisionCondition that routes to guide whatever Decide returned
decisionCondition_guide(state) == "guide"

decisionCondition(state) == state.nextAction

\* the GraphState held in the channels
State ==
  [learningItems |-> learningItems,
   activeItemId |-> activeItemId,
   lastUserInput |-> lastUserInput,
   messages |-> messages,
   nextAction |-> nextAction]
\* a write to the channels that runs the lastUserInput reducer on a
\* missing update as well
SetState_absent(state) ==
  /\ learningItems' = state.learningItems
  /\ activeItemId' = state.activeItemId
  /\ lastUserInput' = <<>>
  /\ messages' = state.messages
  /\ nextAction' = state.nextAction


SetState(state) ==
  /\ learningItems' = state.learningItems
  /\ activeItemId' = state.activeItemId
  /\ lastUserInput' = state.lastUserInput
  /\ messages' = state.messages
  /\ nextAction' = state.nextAction

\* the lines a caller can supply: the empty line, a blank line, and an
\* utterance that starts with a blank
UserInputs == {<<>>, <<" ">>, <<" ", "a">>}

\* a session nobody has invoked the graph for: its GraphState, where its
\* pass stands, and the same session run alone, on a clock of its own
NewSession ==
  [state |-> createInitialState, pc |-> "idle", passIn |-> createInitialState,
   trace |-> <<>>, calls |-> <<>>, extractedSentinel |-> FALSE,
   alone |-> [state |-> createInitialState, clock |-> 0]]

Init ==
  /\ learningItems = createInitialState.learningItems
  /\ activeItemId = createInitialState.activeItemId
  /\ lastUserInput = createInitialState.lastUserInput
  /\ messages = createInitialState.messages
  /\ nextAction = createInitialState.nextAction
  /\ pc = "idle"
  /\ clock = 0
  /\ passIn = createInitialState
  /\ trace = <<>>
  /\ calls = <<>>
  /\ extractedSentinel = FALSE
  /\ loop = "off"
  /\ line = <<>>
  /\ round = 0
  /\ alone = [state |-> createInitialState, clock |-> 0]
  /\ other = NewSession
  /\ held = ChannelDefaults

\* graph.invoke(input): the input is written to the channels through the
\* reducers, starting from the defaults, and entryCondition picks the node
GraphInvoke(input) ==
  LET state == ApplyUpdate(ChannelDefaults, input) IN
  /\ SetState(state)
  /\ pc' = entryCondition(state)
  /\ passIn' = state
  /\ trace' = <<>>
  /\ calls' = <<>>
  /\ clock' = clock + 1
  /\ UNCHANGED extractedSentinel

\* the caller invokes the graph on the state it holds, without an utterance
\* (src/src/interactive.ts:27, src/src/mcp-demo.ts:217)
InvokeWithoutInput(u) ==
  /\ pc = "idle"
  /\ Len(messages) < MaxMessages
  /\ ~Truthy(trim(u))
  /\ GraphInvoke([State EXCEPT !.lastUserInput = u])
  /\ UNCHANGED <<loop, line, round>>
  /\ UNCHANGED <<alone, other, held>>
\* a caller that passes the utterance on without appending it to messages
InvokeWithInput_nomsg(u) ==
  /\ pc = "idle"
  /\ Len(messages) < MaxMessages
  /\ Truthy(trim(u))
  /\ GraphInvoke([State EXCEPT !.lastUserInput = u])
  /\ UNCHANGED <<loop, line, round>>
  /\ UNCHANGED <<alone, other, held>>


\* the caller invokes the graph with the learner's utterance u, which it
\* also appends to messages (src/src/interactive.ts:64, mcp-demo.ts:231)
InvokeWithInput(u) ==
  /\ pc = "idle"
  /\ Len(messages) < MaxMessages
  /\ Truthy(trim(u))
  /\ GraphInvoke([State EXCEPT
                    !.lastUserInput = u,
                    !.messages = @ \o <<[role |-> "user", content |-> u]>>])
  /\ UNCHANGED <<loop, line, round>>
  /\ UNCHANGED <<alone, other, held>>
\* a Select that opens the active item afresh
SelectStep_reopen ==
  /\ pc = "selectItem"
  /\ SetState(ApplyUpdate(State,
       IF Truthy(activeItemId) /\ HasItem(State, activeItemId)
       THEN [learningItems |->
               [k \in {activeItemId} |-> createNewLearningItem(k)]]
       ELSE selectItemNode(State, clock)))
  /\ pc' = "guide"
  /\ trace' = Append(trace, "selectItem")
  /\ UNCHANGED <<clock, passIn, calls, extractedSentinel, loop, line, round>>
  /\ UNCHANGED <<alone, other, held>>


SelectStep ==
  /\ pc = "selectItem"
  /\ SetState(ApplyUpdate(State, selectItemNode(State, clock)))
  /\ pc' = "guide"
  /\ trace' = Append(trace, "selectItem")
  /\ UNCHANGED <<clock, passIn, calls, extractedSentinel, loop, line, round>>
  /\ UNCHANGED <<alone, other, held>>
\* an Assess step that writes the item back with the level it had
AssessStep_nolevel(extractResp, assessResp) ==
  /\ pc = "assess"
  /\ LET r == assessNode(State, clock, extractResp, assessResp)
         items == IF Has(r.delta, "learningItems")
                  THEN [k \in DOMAIN r.delta.learningItems |->
                          [r.delta.learningItems[k] EXCEPT
                             !.currentLevel =
                                learningItems[k].currentLevel]]
                  ELSE EmptyObject
     IN /\ SetState(ApplyUpdate(State, [learningItems |-> items]))
        /\ calls' = calls \o r.calls
  /\ UNCHANGED extractedSentinel
  /\ pc' = "decide"
  /\ trace' = Append(trace, "assess")
  /\ UNCHANGED <<clock, passIn, loop, line, round>>
  /\ UNCHANGED <<alone, other, held>>


AssessStep(extractResp, assessResp) ==
  /\ pc = "assess"
  /\ LET r == assessNode(State, clock, extractResp, assessResp) IN
       /\ SetState(ApplyUpdate(State, r.delta))
       /\ calls' = calls \o r.calls
       /\ extractedSentinel' =
            (\/ extractedSentinel
             \/ \E i \in 1..Len(r.calls) :
                  /\ r.calls[i].fn = "extractLearningGoal"
                  /\ r.calls[i].result.ok
                  /\ r.calls[i].result.value = AWAITING_TOPIC_GOAL)
  /\ pc' = "decide"
  /\ trace' = Append(trace, "assess")
  /\ UNCHANGED <<clock, passIn, loop, line, round>>
  /\ UNCHANGED <<alone, other, held>>
\* a Decide that, when the session goes on, puts the active item back to
\* awaiting_topic
DecideStep_reopen ==
  /\ pc = "decide"
  /\ LET decided == ApplyUpdate(State, decideNode(State))
         state == IF decided.nextAction = "guide"
                  THEN [decided EXCEPT
                          !.learningItems[decided.activeItemId].status =
                             [phase |-> "awaiting_topic"]]
                  ELSE decided
     IN /\ SetState(state)
        /\ pc' = IF decisionCondition(state) = "guide" THEN "guide" ELSE "idle"
  /\ trace' = Append(trace, "decide")
  /\ UNCHANGED <<clock, passIn, calls, extractedSentinel, loop, line, round>>
  /\ UNCHANGED <<alone, other, held>>


DecideStep ==
  /\ pc = "decide"
  /\ LET state == ApplyUpdate(State, decideNode(State)) IN
       /\ SetState(state)
       /\ pc' = IF decisionCondition(state) = "guide" THEN "guide" ELSE "idle"
  /\ trace' = Append(trace, "decide")
  /\ UNCHANGED <<clock, passIn, calls, extractedSentinel, loop, line, round>>
  /\ UNCHANGED <<alone, other, held>>
\* a Guide step that adds no message when the collaborator answers nothing
GuideStep_silent(guideResp) ==
  /\ pc = "guide"
  /\ LET r == guideNode(State, guideResp) IN
       /\ SetState(IF guideResp.kind = "empty" THEN State
                   ELSE ApplyUpdate(State, r.delta))
       /\ calls' = calls \o r.calls
  /\ pc' = "idle"
  /\ trace' = Append(trace, "guide")
  /\ UNCHANGED <<clock, passIn, extractedSentinel, loop, line, round>>
  /\ UNCHANGED <<alone, other, held>>


GuideStep(guideResp) ==
  /\ pc = "guide"
  /\ LET r == guideNode(State, guideResp) IN
       /\ SetState(ApplyUpdate(State, r.delta))
       /\ calls' = calls \o r.calls
  /\ pc' = "idle"
  /\ trace' = Append(trace, "guide")
  /\ UNCHANGED <<clock, passIn, extractedSentinel, loop, line, round>>
  /\ UNCHANGED <<alone, other, held>>

Next ==
  \/ \E u \in UserInputs : InvokeWithoutInput(u)
  \/ \E u \in UserInputs : InvokeWithInput(u)
  \/ SelectStep
  \/ \E er \in ExtractResponses, ar \in AssessResponses : AssessStep(er, ar)
  \/ DecideStep
  \/ \E gr \in GuideResponses : GuideStep(gr)

Spec == Init /\ [][Next]_vars

\* ------------------------------------------------------------------------
\* Fairness: LangGraph runs a started pass to its end, node after node
\* ------------------------------------------------------------------------

NodeStep ==
  \/ SelectStep
  \/ \E er \in ExtractResponses, ar \in AssessResponses : AssessStep(er, ar)
  \/ DecideStep
  \/ \E gr \in GuideResponses : GuideStep(gr)

\* the sessions of Spec whose passes all start on a short transcript
FairNext ==
  \/ Len(messages) < MaxFairMessages
       /\ \E u \in UserInputs : InvokeWithoutInput(u)
  \/ Len(messages) < MaxFairMessages
       /\ \E u \in UserInputs : InvokeWithInput(u)
  \/ NodeStep

FairSpec == Init /\ [][FairNext]_vars /\ WF_vars(NodeStep)
\* ------------------------------------------------------------------------
\* Passes resumed from a stored GraphState: the caller owns the GraphState
\* and may hand graph.invoke any value of its type
\* ------------------------------------------------------------------------
\* ------------------------------------------------------------------------
\* The interactive session (src/src/interactive.ts): main() opens the
\* session with a pass without input and then reads lines until the
\* session ends; a line is a sequence of characters
\* ------------------------------------------------------------------------

toLowerCase(s) ==
  [i \in 1..Len(s) |->
     CASE s[i] = "Q" -> "q" [] s[i] = "U" -> "u" [] s[i] = "I" -> "i"
       [] s[i] = "T" -> "t" [] s[i] = "S" -> "s" [] s[i] = "A" -> "a"
       [] s[i] = "E" -> "e" [] s[i] = "X" -> "x" [] OTHER -> s[i]]

QuitLine == <<"q", "u", "i", "t">>
ExitLine == <<"e", "x", "i", "t">>
StatusLine == <<"s", "t", "a", "t", "u", "s">>

\* the lines the learner types: the commands in lower, upper and mixed
\* case, the empty and the blank line, an utterance, and a command
\* followed by a blank
Lines ==
  {<<>>, <<" ">>, QuitLine, <<"Q", "u", "i", "t">>, ExitLine, StatusLine,
   <<"S", "T", "A", "T", "U", "S">>, <<"a">>, QuitLine \o <<" ">>}

LoopInit ==
  /\ learningItems = ChannelDefaults.learningItems
  /\ activeItemId = ChannelDefaults.activeItemId
  /\ lastUserInput = ChannelDefaults.lastUserInput
  /\ messages = ChannelDefaults.messages
  /\ nextAction = ChannelDefaults.nextAction
  /\ pc = "idle"
  /\ clock = 0
  /\ passIn = ChannelDefaults
  /\ trace = <<>>
  /\ calls = <<>>
  /\ extractedSentinel = FALSE
  /\ loop = "start"
  /\ line = <<>>
  /\ round = 0
  /\ alone = [state |-> createInitialState, clock |-> 0]
  /\ other = NewSession
  /\ held = ChannelDefaults

\* let state = await graph.invoke({...})
MainStart ==
  /\ loop = "start"
  /\ GraphInvoke([learningItems |-> EmptyObject, activeItemId |-> NULL,
                  lastUserInput |-> <<>>, messages |-> <<>>,
                  nextAction |-> "guide"])
  /\ loop' = "opening"
  /\ UNCHANGED <<line, round>>
  /\ UNCHANGED <<alone, other, held>>

\* the opening pass has returned: state holds its result; let round = 1
MainOpened ==
  /\ loop = "opening"
  /\ pc = "idle"
  /\ loop' = "ask"
  /\ round' = 1
  /\ UNCHANGED <<learningItems, activeItemId, lastUserInput, messages,
                 nextAction, pc, clock, passIn, trace, calls,
                 extractedSentinel, line>>
  /\ held' = State
  /\ UNCHANGED <<alone, other>>
\* a loop turn without the check for a blank line
ReadLine_noblank(userInput) ==
  /\ loop = "ask"
  /\ nextAction # "end"
  /\ Len(messages) < MaxMessages
  /\ line' = userInput
  /\ IF toLowerCase(userInput) = QuitLine \/ toLowerCase(userInput) = ExitLine
     THEN /\ loop' = "closed"
          /\ UNCHANGED <<learningItems, activeItemId, lastUserInput,
                         messages, nextAction, pc, clock, passIn, trace,
                         calls, extractedSentinel, round>>
     ELSE IF toLowerCase(userInput) = StatusLine
     THEN UNCHANGED <<learningItems, activeItemId, lastUserInput,
                      messages, nextAction, pc, clock, passIn, trace,
                      calls, extractedSentinel, round, loop>>
     ELSE /\ GraphInvoke([State EXCEPT
                 !.lastUserInput = userInput,
                 !.messages =
                    @ \o <<[role |-> "user", content |-> userInput]>>])
          /\ loop' = "pass"
          /\ UNCHANGED round
  /\ UNCHANGED <<alone, other, held>>


\* one turn of the while loop up to the call of graph.invoke
ReadLine(userInput) ==
  /\ loop = "ask"
  /\ nextAction # "end"
  /\ Len(messages) < MaxMessages
  /\ line' = userInput
  /\ IF toLowerCase(userInput) = QuitLine \/ toLowerCase(userInput) = ExitLine
     THEN /\ loop' = "closed"
          /\ UNCHANGED <<learningItems, activeItemId, lastUserInput,
                         messages, nextAction, pc, clock, passIn, trace,
                         calls, extractedSentinel, round>>
     ELSE IF toLowerCase(userInput) = StatusLine \/ ~Truthy(trim(userInput))
     THEN UNCHANGED <<learningItems, activeItemId, lastUserInput,
                      messages, nextAction, pc, clock, passIn, trace,
                      calls, extractedSentinel, round, loop>>
     ELSE /\ GraphInvoke([State EXCEPT
                 !.lastUserInput = userInput,
                 !.messages =
                    @ \o <<[role |-> "user", content |-> userInput]>>])
          /\ loop' = "pass"
          /\ UNCHANGED round
  /\ UNCHANGED <<alone, other, held>>

\* the pass has returned: state = its result; round++
PassReturned ==
  /\ loop = "pass"
  /\ pc = "idle"
  /\ loop' = "ask"
  /\ round' = round + 1
  /\ held' = State
  /\ UNCHANGED <<learningItems, activeItemId, lastUserInput, messages,
                 nextAction, pc, clock, passIn, trace, calls,
                 extractedSentinel, line>>
  /\ UNCHANGED <<alone, other>>

\* a node of the running pass throws: Assess and Guide build their client
\* with new OpenAI(...) before their try block (src/src/assessment/llm.ts,
\* src/src/nodes/guide.ts), and the constructor throws when the environment
\* holds no API key
ClientThrows == pc \in {"assess", "guide"}

\* a catch clause that goes on with what the failed pass left in the
\* channels
PassThrown_kept ==
  /\ loop = "pass"
  /\ ClientThrows
  /\ clock <= MaxPasses
  /\ pc' = "idle"
  /\ loop' = "ask"
  /\ UNCHANGED <<learningItems, activeItemId, lastUserInput, messages,
                 nextAction, clock, passIn, trace, calls, extractedSentinel,
                 line, round, held>>
  /\ UNCHANGED <<alone, other>>

\* graph.invoke rejects inside the try block of the loop: the assignment to
\* state and round++ are skipped, the catch clause prints the apology and
\* the while loop goes on with the GraphState main() held before the pass;
\* the passes that throw are among the first MaxPasses of the session
PassThrown ==
  /\ loop = "pass"
  /\ ClientThrows
  /\ clock <= MaxPasses
  /\ SetState(held)
  /\ pc' = "idle"
  /\ loop' = "ask"
  /\ UNCHANGED <<clock, passIn, trace, calls, extractedSentinel, line, round,
                 held>>
  /\ UNCHANGED <<alone, other>>

\* the opening graph.invoke rejects: main().catch prints the fatal error
\* and the process exits
MainFailed ==
  /\ loop = "opening"
  /\ ClientThrows
  /\ SetState(held)
  /\ pc' = "idle"
  /\ loop' = "closed"
  /\ UNCHANGED <<clock, passIn, trace, calls, extractedSentinel, line, round,
                 held>>
  /\ UNCHANGED <<alone, other>>

\* while (state.nextAction !== "end") fails: the final summary, rl.close()
MainFinished ==
  /\ loop = "ask"
  /\ nextAction = "end"
  /\ loop' = "closed"
  /\ UNCHANGED <<learningItems, activeItemId, lastUserInput, messages,
                 nextAction, pc, clock, passIn, trace, calls,
                 extractedSentinel, line, round>>
  /\ UNCHANGED <<alone, other, held>>

LoopNext ==
  \/ MainStart
  \/ MainOpened
  \/ \E userInput \in Lines : ReadLine(userInput)
  \/ PassReturned
  \/ MainFinished
  \/ NodeStep

LoopSpec == LoopInit /\ [][LoopNext]_vars

\* the interactive session in an environment where building the client
\* can fail; the learner types an utterance, a blank line or quit
ThrowLines == {<<"a">>, <<" ">>, QuitLine}

ThrowNext ==
  \/ MainStart
  \/ MainOpened
  \/ \E userInput \in ThrowLines : ReadLine(userInput)
  \/ PassReturned
  \/ PassThrown
  \/ MainFailed
  \/ MainFinished
  \/ NodeStep

ThrowSpec == LoopInit /\ [][ThrowNext]_vars

\* ------------------------------------------------------------------------
\* Two sessions in one process (src/src/graph.ts:114-127): each caller holds
\* a GraphState of its own and awaits graph.invoke; the event loop runs one
\* session at a time and may change over wherever a pass awaits. Beside
\* every session stands the same session run alone: the same calls, the
\* same answers, and a clock nobody else has advanced.
\* ------------------------------------------------------------------------

\* no line, for the opening pass, and an utterance
SessionLines == {<<>>, <<" ", "a">>}

\* the GraphState a caller hands to graph.invoke for the line u
WithLine(state, u) ==
  IF Truthy(trim(u))
  THEN [state EXCEPT !.lastUserInput = u,
                     !.messages = @ \o <<[role |-> "user", content |-> u]>>]
  ELSE [state EXCEPT !.lastUserInput = u]

SessionInvoke(u) ==
  /\ pc = "idle"
  /\ clock < MaxPasses
  /\ GraphInvoke(WithLine(State, u))
  /\ alone' = [state |-> ApplyUpdate(ChannelDefaults,
                                     WithLine(alone.state, u)),
               clock |-> alone.clock + 1]
  /\ UNCHANGED <<loop, line, round, other, held>>

SessionSelect ==
  /\ pc = "selectItem"
  /\ SetState(ApplyUpdate(State, selectItemNode(State, clock)))
  /\ alone' = [alone EXCEPT
                 !.state = ApplyUpdate(@, selectItemNode(@, alone.clock))]
  /\ pc' = "guide"
  /\ trace' = Append(trace, "selectItem")
  /\ UNCHANGED <<clock, passIn, calls, extractedSentinel, loop, line, round,
                 other, held>>

SessionAssess(extractResp, assessResp) ==
  /\ pc = "assess"
  /\ LET r == assessNode(State, clock, extractResp, assessResp) IN
       /\ SetState(ApplyUpdate(State, r.delta))
       /\ calls' = calls \o r.calls
  /\ alone' = [alone EXCEPT
                 !.state = ApplyUpdate(@, assessNode(@, alone.clock,
                                                     extractResp,
                                                     assessResp).delta)]
  /\ pc' = "decide"
  /\ trace' = Append(trace, "assess")
  /\ UNCHANGED <<clock, passIn, extractedSentinel, loop, line, round, other, held>>

SessionDecide ==
  /\ pc = "decide"
  /\ LET state == ApplyUpdate(State, decideNode(State)) IN
       /\ SetState(state)
       /\ pc' = IF decisionCondition(state) = "guide" THEN "guide" ELSE "idle"
  /\ alone' = [alone EXCEPT !.state = ApplyUpdate(@, decideNode(@))]
  /\ trace' = Append(trace, "decide")
  /\ UNCHANGED <<clock, passIn, calls, extractedSentinel, loop, line, round,
                 other, held>>

SessionGuide(guideResp) ==
  /\ pc = "guide"
  /\ LET r == guideNode(State, guideResp) IN
       /\ SetState(ApplyUpdate(State, r.delta))
       /\ calls' = calls \o r.calls
  /\ alone' = [alone EXCEPT
                 !.state = ApplyUpdate(@, guideNode(@, guideResp).delta)]
  /\ pc' = "idle"
  /\ trace' = Append(trace, "guide")
  /\ UNCHANGED <<clock, passIn, extractedSentinel, loop, line, round, other, held>>
\* a change-over with one transcript for both sessions
Switch_shared ==
  /\ other' = [state |-> State, pc |-> pc, passIn |-> passIn,
               trace |-> trace, calls |-> calls,
               extractedSentinel |-> extractedSentinel, alone |-> alone]
  /\ SetState([other.state EXCEPT !.messages = messages])
  /\ pc' = other.pc
  /\ passIn' = other.passIn
  /\ trace' = other.trace
  /\ calls' = other.calls
  /\ extractedSentinel' = other.extractedSentinel
  /\ alone' = other.alone
  /\ UNCHANGED <<clock, loop, line, round, held>>


\* the event loop leaves the session in hand where it stands and takes up
\* the parked one; Date.now() is the one thing the two have in common
Switch ==
  /\ other' = [state |-> State, pc |-> pc, passIn |-> passIn,
               trace |-> trace, calls |-> calls,
               extractedSentinel |-> extractedSentinel, alone |-> alone]
  /\ SetState(other.state)
  /\ pc' = other.pc
  /\ passIn' = other.passIn
  /\ trace' = other.trace
  /\ calls' = other.calls
  /\ extractedSentinel' = other.extractedSentinel
  /\ alone' = other.alone
  /\ UNCHANGED <<clock, loop, line, round, held>>

TwoNext ==
  \/ \E u \in SessionLines : SessionInvoke(u)
  \/ SessionSelect
  \/ \E er \in ExtractResponses, ar \in AssessResponses :
       SessionAssess(er, ar)
  \/ SessionDecide
  \/ \E gr \in GuideResponses : SessionGuide(gr)
  \/ Switch

TwoSpec == Init /\ [][TwoNext]_vars

\* ------------------------------------------------------------------------
\* A caller that hands a returned GraphState back to graph.invoke as it is
\* ------------------------------------------------------------------------

\* graph.invoke(state) on the state the last pass returned, during the
\* first MaxPasses passes of the session
Reinvoke ==
  /\ pc = "idle"
  /\ clock > 0
  /\ clock < MaxPasses
  /\ Len(messages) < MaxMessages
  /\ GraphInvoke(State)
  /\ UNCHANGED <<loop, line, round, alone, other, held>>

ReinvokeNext ==
  \/ \E u \in UserInputs : InvokeWithoutInput(u)
  \/ \E u \in UserInputs : InvokeWithInput(u)
  \/ Reinvoke
  \/ NodeStep

ReinvokeSpec == Init /\ [][ReinvokeNext]_vars


\* Date.now() of a resumed pass, later than every stored timestamp
ResumeClock == MAX_EVIDENCE_COUNT + 2

SampleGoals ==
  {AWAITING_TOPIC_GOAL, DEFAULT_GOAL, ShortGoal, PlainGoal, LongGoal,
   SubSeq(LongGoal, 1, SPECIFIC_GOAL_MIN_LENGTH),
   SubSeq(LongGoal, 1, SPECIFIC_GOAL_MIN_LENGTH + 1),
   LongGoal \o <<"deng", "dai">>, PlainGoal \o <<"ke">>}

\* n stored utterances, oldest first
SampleEvidence(n) == [i \in 1..n |-> createEvidence(<<"e">>, i)]

SampleStatuses ==
  {[phase |-> "awaiting_topic"]}
  \cup [phase : {"collecting_info", "learning"}, hasBasicInfo : BOOLEAN]

\* a cognitiveState without and one with the optional member misconceptions
SampleCognitiveStates ==
  {[summary |-> "not_assessed_yet", missingParts |-> "everything"],
   [summary |-> "too_vague", missingParts |-> "more_specific_expression",
    misconceptions |-> <<"m">>]}

\* learning items of every goal, level, evidence count, status and
\* cognitiveState
SampleItems ==
  {[createNewLearningItem(generateItemId(1)) EXCEPT
      !.goal = g, !.currentLevel = l, !.cognitiveState = cs,
      !.recentEvidence = SampleEvidence(n), !.status = st]
   : g \in SampleGoals, l \in CognitiveLevel, cs \in SampleCognitiveStates,
     n \in 0..MAX_EVIDENCE_COUNT, st \in SampleStatuses}

\* the GraphStates a pass is resumed from: one whose active item resolves,
\* for every sample item, those whose activeItemId is null, empty or not a
\* key of learningItems, and those that hold a second item beside the
\* active one
SampleStates ==
  LET msgs(u) == IF Truthy(trim(u))
                 THEN <<[role |-> "user", content |-> u]>> ELSE <<>>
      one(item) == [k \in {item.id} |-> item]
      second == [createNewLearningItem(generateItemId(2)) EXCEPT
                   !.goal = DEFAULT_GOAL, !.currentLevel = Structured,
                   !.recentEvidence = SampleEvidence(2),
                   !.status = [phase |-> "learning", hasBasicInfo |-> FALSE]]
      two(item) == [k \in {item.id, second.id} |->
                      IF k = item.id THEN item ELSE second]
  IN {[learningItems |-> two(item), activeItemId |-> item.id,
       lastUserInput |-> u, messages |-> msgs(u), nextAction |-> "guide"]
      : item \in {createNewLearningItem(generateItemId(1)),
                  [createNewLearningItem(generateItemId(1)) EXCEPT
                     !.goal = DEFAULT_GOAL,
                     !.recentEvidence = SampleEvidence(1),
                     !.status = [phase |-> "collecting_info",
                                 hasBasicInfo |-> FALSE]]},
        u \in UserInputs}
     \cup
     {[learningItems |-> one(item), activeItemId |-> item.id,
       lastUserInput |-> u, messages |-> msgs(u), nextAction |-> "guide"]
      : item \in SampleItems, u \in UserInputs}
     \cup
     {[learningItems |-> items, activeItemId |-> id,
       lastUserInput |-> u, messages |-> msgs(u), nextAction |-> na]
      : items \in {EmptyObject,
                   one(createNewLearningItem(generateItemId(1)))},
        id \in {NULL, <<>>, generateItemId(2)},
        u \in UserInputs, na \in NextAction}

\* graph.invoke(state) on a sample GraphState
ResumeInit ==
  \E state \in SampleStates :
    /\ learningItems = state.learningItems
    /\ activeItemId = state.activeItemId
    /\ lastUserInput = state.lastUserInput
    /\ messages = state.messages
    /\ nextAction = state.nextAction
    /\ pc = entryCondition(state)
    /\ clock = ResumeClock
    /\ passIn = state
    /\ trace = <<>>
    /\ calls = <<>>
    /\ extractedSentinel = FALSE
    /\ loop = "off"
    /\ line = <<>>
    /\ round = 0
    /\ alone = [state |-> createInitialState, clock |-> 0]
    /\ other = NewSession
    /\ held = ChannelDefaults

ResumeSpec == ResumeInit /\ [][NodeStep]_vars

\* ------------------------------------------------------------------------
\* Storage of a GraphState between passes: the caller writes the value out
\* as JSON and reads it back (JSON.stringify / JSON.parse)
\* ------------------------------------------------------------------------

\* a JSON object is the sequence of its <<key, value>> entries
Entry(object, key) ==
  object[CHOOSE i \in 1..Len(object) : object[i][1] = key][2]

HasEntry(object, key) == \E i \in 1..Len(object) : object[i][1] = key

SerializeEvidence(e) ==
  <<<<"source", e.source>>, <<"content", e.content>>,
    <<"timestamp", e.timestamp>>>>

DeserializeEvidence(j) ==
  [source |-> Entry(j, "source"), content |-> Entry(j, "content"),
   timestamp |-> Entry(j, "timestamp")]

\* the status object has the member hasBasicInfo in two of its three shapes
SerializeStatus(st) ==
  IF "hasBasicInfo" \in DOMAIN st
  THEN <<<<"phase", st.phase>>, <<"hasBasicInfo", st.hasBasicInfo>>>>
  ELSE <<<<"phase", st.phase>>>>

DeserializeStatus(j) ==
  IF HasEntry(j, "hasBasicInfo")
  THEN [phase |-> Entry(j, "phase"),
        hasBasicInfo |-> Entry(j, "hasBasicInfo")]
  ELSE [phase |-> Entry(j, "phase")]

\* the cognitiveState object has the member misconceptions when it was set
SerializeCognitiveState(cs) ==
  IF "misconceptions" \in DOMAIN cs
  THEN <<<<"summary", cs.summary>>, <<"missingParts", cs.missingParts>>,
         <<"misconceptions", cs.misconceptions>>>>
  ELSE <<<<"summary", cs.summary>>, <<"missingParts", cs.missingParts>>>>

DeserializeCognitiveState(j) ==
  IF HasEntry(j, "misconceptions")
  THEN [summary |-> Entry(j, "summary"),
        missingParts |-> Entry(j, "missingParts"),
        misconceptions |-> Entry(j, "misconceptions")]
  ELSE [summary |-> Entry(j, "summary"),
        missingParts |-> Entry(j, "missingParts")]

SerializeItem(item) ==
  <<<<"id", item.id>>,
    <<"goal", item.goal>>,
    <<"currentLevel", item.currentLevel>>,
    <<"cognitiveState", SerializeCognitiveState(item.cognitiveState)>>,
    <<"recentEvidence",
      [i \in 1..Len(item.recentEvidence) |->
         SerializeEvidence(item.recentEvidence[i])]>>,
    <<"nextIntent", item.nextIntent>>,
    <<"status", SerializeStatus(item.status)>>>>

DeserializeItem(j) ==
  [id |-> Entry(j, "id"),
   goal |-> Entry(j, "goal"),
   currentLevel |-> Entry(j, "currentLevel"),
   cognitiveState |-> DeserializeCognitiveState(Entry(j, "cognitiveState")),
   recentEvidence |->
     [i \in 1..Len(Entry(j, "recentEvidence")) |->
        DeserializeEvidence(Entry(j, "recentEvidence")[i])],
   nextIntent |-> Entry(j, "nextIntent"),
   status |-> DeserializeStatus(Entry(j, "status"))]

\* the members of the learningItems object, one <<key, item>> per item
SerializeItems(items) ==
  {<<id, SerializeItem(items[id])>> : id \in DOMAIN items}

DeserializeItems(members) ==
  [id \in {m[1] : m \in members} |->
     DeserializeItem((CHOOSE m \in members : m[1] = id)[2])]

Serialize(state) ==
  <<<<"learningItems", SerializeItems(state.learningItems)>>,
    <<"activeItemId", state.activeItemId>>,
    <<"lastUserInput", state.lastUserInput>>,
    <<"messages",
      [i \in 1..Len(state.messages) |->
         <<<<"role", state.messages[i].role>>,
           <<"content", state.messages[i].content>>>>]>>,
    <<"nextAction", state.nextAction>>>>

Deserialize(j) ==
  [learningItems |-> DeserializeItems(Entry(j, "learningItems")),
   activeItemId |-> Entry(j, "activeItemId"),
   lastUserInput |-> Entry(j, "lastUserInput"),
   messages |->
     [i \in 1..Len(Entry(j, "messages")) |->
        [role |-> Entry(Entry(j, "messages")[i], "role"),
         content |-> Entry(Entry(j, "messages")[i], "content")]],
   nextAction |-> Entry(j, "nextAction")]


\* ------------------------------------------------------------------------
\* Vocabulary of the properties
\* ------------------------------------------------------------------------

\* the active item of a GraphState can be resolved
Resolves(state) ==
  Truthy(state.activeItemId) /\ HasItem(state, state.activeItemId)

ItemOf(state) == state.learningItems[state.activeItemId]

\* node n has run in the running / last pass
Ran(n) == \E i \in 1..Len(trace) : trace[i] = n

\* the running / last pass ran Assess on an item it could resolve
AssessedItem == Ran("assess") /\ Resolves(passIn)

\* ... through the first-turn transition / the subsequent-turn transition
FirstTurn == AssessedItem /\ calls[1].fn = "extractLearningGoal"
SubsequentTurn == AssessedItem /\ calls[1].fn = "llmBasedAssessment"
AssessSucceeded == SubsequentTurn /\ calls[1].result.ok
AssessFailed == SubsequentTurn /\ ~calls[1].result.ok

\* a pass has run and has returned to the caller
Returned == pc = "idle" /\ clock > 0

IsPrefix(s, t) == Len(s) <= Len(t) /\ SubSeq(t, 1, Len(s)) = s

\* ------------------------------------------------------------------------
\* C1
\* ------------------------------------------------------------------------

\* GraphStates on which Decide is evaluated besides the reachable ones: no
\* item or one item of any level, and an activeItemId that is null, empty,
\* the key of the item, or a key that is not in learningItems
DecideSamples ==
  [learningItems :
     {EmptyObject} \cup
     {[k \in {generateItemId(1)} |->
         [createNewLearningItem(generateItemId(1)) EXCEPT !.currentLevel = l]]
      : l \in CognitiveLevel},
   activeItemId : {NULL, <<>>, generateItemId(1), generateItemId(2)},
   lastUserInput : {<<"a">>},
   messages : {<<>>},
   nextAction : NextAction]

\* what the claim says Decide returns on a GraphState
DecideExpected(state) ==
  IF ~Resolves(state) \/ ItemOf(state).currentLevel = 4
  THEN "end" ELSE "guide"

\* C1: currentLevel of every learning item is in {1,2,3,4}; Decide returns
\* end iff the active item's level is 4 or no active item can be resolved,
\* and guide otherwise: in every pass that has run Decide (Guide, which may
\* follow, changes neither the items nor nextAction), and on every sample
\* GraphState
C1_LevelsAndDecide ==
  /\ \A id \in DOMAIN learningItems :
       learningItems[id].currentLevel \in {1, 2, 3, 4}
  /\ Ran("decide") => nextAction = DecideExpected(State)
  /\ \A s \in DecideSamples : decideNode(s).nextAction = DecideExpected(s)

\* a pass in which Decide returned end because the active item is at level 4
C1_Witness ==
  /\ Ran("decide")
  /\ Resolves(State)
  /\ ItemOf(State).currentLevel = 4
  /\ nextAction = "end"

\* ------------------------------------------------------------------------
\* C2
\* ------------------------------------------------------------------------

\* the Decision Table as the specification prints it
SpecifiedDecision(label, level) ==
  CASE label = "too_vague" ->
         [nextIntent |-> "elicit_intuition", newLevel |-> 1]
    [] label = "intuition_but_unclear" ->
         [nextIntent |-> IF level = 1 THEN "force_clarification"
                         ELSE "elicit_intuition",
          newLevel |-> 1]
    [] label = "can_describe_with_structure" ->
         [nextIntent |-> "introduce_structure", newLevel |-> 2]
    [] label = "fully_structured" ->
         [nextIntent |-> "test_transfer", newLevel |-> 3]
    [] label = "transferable" ->
         [nextIntent |-> "test_transfer", newLevel |-> 4]

\* C2: whenever an assessment succeeds with some label on an item of some
\* level, the item gets the intent and the level of the specified table,
\* which are a TeachingIntent and a CognitiveLevel (no default result)
C2_DecisionTable ==
  AssessSucceeded =>
    LET label == calls[1].result.value.cognitiveState
        level == ItemOf(passIn).currentLevel
        item == ItemOf(State)
    IN /\ label \in CognitiveStateLabel
       /\ level \in CognitiveLevel
       /\ item.nextIntent = SpecifiedDecision(label, level).nextIntent
       /\ item.currentLevel = SpecifiedDecision(label, level).newLevel
       /\ item.nextIntent \in TeachingIntent
       /\ item.currentLevel \in CognitiveLevel

\* Scenario B: intuition_but_unclear assessed on an item at IntuitionOnly
C2_Witness ==
  /\ AssessSucceeded
  /\ calls[1].result.value.cognitiveState = "intuition_but_unclear"
  /\ ItemOf(passIn).currentLevel = IntuitionOnly
  /\ ItemOf(State).nextIntent = "force_clarification"

\* ------------------------------------------------------------------------
\* C3
\* ------------------------------------------------------------------------

\* the evidence entry Assess makes of the utterance of the pass
NewEvidence ==
  [source |-> "user_input", content |-> passIn.lastUserInput,
   timestamp |-> clock]

\* C3: no item ever holds more than 5 evidence entries; a subsequent-turn
\* Assess (successful or failed) appends the new entry last, and when the
\* list already held 5 entries it drops exactly the oldest one and keeps
\* the other four in order; a first-turn Assess leaves a single entry
C3_EvidenceBound ==
  /\ \A id \in DOMAIN learningItems :
       Len(learningItems[id].recentEvidence) <= 5
  /\ SubsequentTurn =>
       LET old == ItemOf(passIn).recentEvidence
           new == ItemOf(State).recentEvidence
       IN IF Len(old) = 5
          THEN new = Tail(old) \o <<NewEvidence>>
          ELSE new = old \o <<NewEvidence>>
  /\ FirstTurn => ItemOf(State).recentEvidence = <<NewEvidence>>

\* an Assess on a list of 5 entries (the entries differ in their
\* timestamps): the oldest has been evicted
C3_Witness ==
  /\ SubsequentTurn
  /\ Len(ItemOf(passIn).recentEvidence) = 5
  /\ ItemOf(passIn).recentEvidence[1].timestamp
       < ItemOf(passIn).recentEvidence[2].timestamp
  /\ Len(ItemOf(State).recentEvidence) = 5
  /\ ItemOf(State).recentEvidence[1] = ItemOf(passIn).recentEvidence[2]


\* ------------------------------------------------------------------------
\* C4
\* ------------------------------------------------------------------------

\* C4: when the assessment of a subsequent turn fails, the item after Assess
\* is the item before it with the raw utterance appended to recentEvidence
\* (last 5 kept): currentLevel, nextIntent, status, cognitiveState and goal
\* are as before; and the pass goes on to Decide
C4_AssessFailureKeepsState ==
  AssessFailed =>
    LET old == ItemOf(passIn)
        new == ItemOf(State)
    IN /\ new.recentEvidence =
            SliceLast(old.recentEvidence \o <<NewEvidence>>, 5)
       /\ Len(new.recentEvidence) <= 5
       /\ new.recentEvidence[Len(new.recentEvidence)].content
            = passIn.lastUserInput
       /\ new.currentLevel = old.currentLevel
       /\ new.nextIntent = old.nextIntent
       /\ new.status = old.status
       /\ new.cognitiveState = old.cognitiveState
       /\ new.goal = old.goal
       /\ new.id = old.id
       /\ pc = "decide" \/ Ran("decide")

\* Scenario D on an item that had been assessed before: the assessment
\* failed, the pass went through Decide and Guide and returned
C4_Witness ==
  /\ AssessFailed
  /\ ItemOf(passIn).status.phase = "learning"
  /\ ItemOf(passIn).currentLevel = Structured
  /\ Len(ItemOf(State).recentEvidence) = Len(ItemOf(passIn).recentEvidence) + 1
  /\ Ran("decide")
  /\ pc = "idle"

\* ------------------------------------------------------------------------
\* C5
\* ------------------------------------------------------------------------

\* C5: an Assess on a resolvable item takes the first-turn transition (it
\* calls the goal extraction) exactly when the item's goal is the sentinel
\* and it has no evidence, and the subsequent-turn transition otherwise; the
\* first-turn transition never calls the assessment, and leaves goal = the
\* extracted text (the default goal text when the extraction failed), a
\* single evidence entry holding the utterance,
\* nextIntent = elicit_intuition, status = collecting_info{false} and the
\* level at IntuitionOnly
C5_FirstTurn ==
  AssessedItem =>
    LET old == ItemOf(passIn)
        new == ItemOf(State)
        first == old.goal = AWAITING_TOPIC_GOAL /\ old.recentEvidence = <<>>
    IN /\ first <=> calls[1].fn = "extractLearningGoal"
       /\ ~first <=> calls[1].fn = "llmBasedAssessment"
       /\ first =>
            /\ \A i \in 1..Len(calls) : calls[i].fn # "llmBasedAssessment"
            /\ new.goal = IF calls[1].result.ok THEN calls[1].result.value
                          ELSE DEFAULT_GOAL
            /\ new.recentEvidence = <<NewEvidence>>
            /\ new.nextIntent = "elicit_intuition"
            /\ new.status = [phase |-> "collecting_info",
                             hasBasicInfo |-> FALSE]
            /\ old.currentLevel = IntuitionOnly
            /\ new.currentLevel = IntuitionOnly

\* Scenario A: the first utterance of a fresh item, the extraction answered
C5_Witness ==
  /\ FirstTurn
  /\ calls[1].result.ok
  /\ ItemOf(State).goal = LongGoal
  /\ ItemOf(State).status.phase = "collecting_info"
  /\ Len(ItemOf(State).recentEvidence) = 1


\* ------------------------------------------------------------------------
\* C6
\* ------------------------------------------------------------------------

\* the input of the running / last pass is empty or whitespace
BlankInput == trim(passIn.lastUserInput) = <<>>

\* the node sequences the claim allows for the running / last pass
PassSequences ==
  IF BlankInput THEN {<<"selectItem", "guide">>}
  ELSE {<<"assess", "decide", "guide">>, <<"assess", "decide">>}

\* the nodes run so far are the beginning of an allowed sequence: the whole
\* of it once the pass has returned, and otherwise the pass stands at the
\* node that comes next in it
FollowsSequence ==
  IF clock = 0 THEN pc = "idle" /\ trace = <<>>
  ELSE \E s \in PassSequences :
         /\ IsPrefix(trace, s)
         /\ pc = "idle" => trace = s
         /\ pc # "idle" => Len(trace) < Len(s) /\ pc = s[Len(trace) + 1]

\* C6: every pass follows Select -> Guide on a blank input and
\* Assess -> Decide -> Guide or Assess -> Decide on a non-blank input, one
\* node at a time and no node twice; Guide is followed by the return to the
\* caller; and every pass that has started returns
C6_PassSequence ==
  /\ [](FollowsSequence /\ (Ran("guide") => pc = "idle"))
  /\ (pc # "idle") ~> (pc = "idle")

\* a pass on a non-blank input that stopped after Decide
C6_Witness ==
  /\ Returned
  /\ ~BlankInput
  /\ trace = <<"assess", "decide">>


\* ------------------------------------------------------------------------
\* C7
\* ------------------------------------------------------------------------

\* C7: the messages a pass returns start with the messages supplied to it,
\* in the same order; a pass that ran Guide returns the supplied messages
\* followed by exactly one new assistant message, and a pass that did not
\* run Guide returns the supplied messages
C7_MessagesAppendOnly ==
  Returned =>
    /\ IsPrefix(passIn.messages, messages)
    /\ Ran("guide") =>
         /\ Len(messages) = Len(passIn.messages) + 1
         /\ messages[Len(messages)].role = "assistant"
    /\ ~Ran("guide") => messages = passIn.messages

\* ------------------------------------------------------------------------
\* C8
\* ------------------------------------------------------------------------

\* C8: a non-null activeItemId is a key of learningItems, and the item
\* stored under it (as every stored item) has that key as its id
C8_ActiveItemResolves ==
  /\ activeItemId # NULL =>
       /\ activeItemId \in DOMAIN learningItems
       /\ learningItems[activeItemId].id = activeItemId
  /\ \A k \in DOMAIN learningItems : learningItems[k].id = k

\* a session whose item, created by Select, has been through an assessment
C8_Witness ==
  /\ Returned
  /\ activeItemId # NULL
  /\ activeItemId \in DOMAIN learningItems
  /\ learningItems[activeItemId].status.phase = "learning"

\* ------------------------------------------------------------------------
\* C9
\* ------------------------------------------------------------------------

\* C9: in a pass that has run Select: if the supplied state's active item
\* resolved, Select changed nothing (the state is the supplied one until
\* Guide adds its message); otherwise learningItems is the supplied map plus
\* exactly one item in its initial lifecycle state, and activeItemId is its
\* id.  In both cases running Select once more returns an empty delta
C9_SelectIdempotent ==
  Ran("selectItem") =>
    /\ IF Resolves(passIn)
       THEN /\ learningItems = passIn.learningItems
            /\ activeItemId = passIn.activeItemId
            /\ lastUserInput = passIn.lastUserInput
            /\ nextAction = passIn.nextAction
            /\ pc = "guide" => State = passIn
       ELSE /\ activeItemId \notin DOMAIN passIn.learningItems
            /\ DOMAIN learningItems
                 = DOMAIN passIn.learningItems \cup {activeItemId}
            /\ \A k \in DOMAIN passIn.learningItems :
                 learningItems[k] = passIn.learningItems[k]
            /\ learningItems[activeItemId].id = activeItemId
            /\ learningItems[activeItemId].status = [phase |-> "awaiting_topic"]
            /\ learningItems[activeItemId].goal = AWAITING_TOPIC_GOAL
            /\ learningItems[activeItemId].currentLevel = IntuitionOnly
            /\ learningItems[activeItemId].recentEvidence = <<>>
            /\ learningItems[activeItemId].nextIntent = "elicit_intuition"
    /\ DOMAIN selectItemNode(State, clock + 1) = {}
    /\ ApplyUpdate(State, selectItemNode(State, clock + 1)) = State

\* a pass that ran Select on a state whose active item already existed
C9_Witness ==
  /\ Returned
  /\ Ran("selectItem")
  /\ Resolves(passIn)
  /\ Cardinality(DOMAIN learningItems) = 1

\* ------------------------------------------------------------------------
\* C10
\* ------------------------------------------------------------------------

\* the running / last pass assessed the utterance as transferable
AssessedTransferable ==
  AssessSucceeded /\ calls[1].result.value.cognitiveState = "transferable"

\* C10: after a successful assessment with label transferable, whatever the
\* level was, the item has nextIntent = test_transfer and level
\* Transferable; the pass then runs Decide, which returns end, and returns
\* to the caller without running Guide
C10_TransferableEnds ==
  AssessedTransferable =>
    /\ ItemOf(State).nextIntent = "test_transfer"
    /\ ItemOf(State).currentLevel = Transferable
    /\ pc \in {"decide", "idle"}
    /\ ~Ran("guide")
    /\ Ran("decide") =>
         /\ nextAction = "end"
         /\ pc = "idle"
         /\ trace = <<"assess", "decide">>

\* Scenario C: transferable assessed on an item at Structured, pass returned
C10_Witness ==
  /\ AssessedTransferable
  /\ ItemOf(passIn).currentLevel = Structured
  /\ Returned
  /\ nextAction = "end"

\* ------------------------------------------------------------------------
\* C11
\* ------------------------------------------------------------------------

\* C11: teaching never skips a level: across a successful assessment the
\* currentLevel of the assessed item rises by at most one level
C11_NoSkipLevel ==
  AssessSucceeded =>
    ItemOf(State).currentLevel <= ItemOf(passIn).currentLevel + 1

\* ------------------------------------------------------------------------
\* C12
\* ------------------------------------------------------------------------

\* the step taken is a Guide step whose guidance call threw
GuideFailedStep ==
  /\ pc = "guide"
  /\ Len(calls') = Len(calls) + 1
  /\ calls'[Len(calls')].fn = "guide"
  /\ ~calls'[Len(calls')].result.ok

\* C12: a failure of the guidance collaborator does not leave Guide: the
\* step appends the fixed apology as an assistant message, leaves
\* learningItems, activeItemId and nextAction as they were, and the pass
\* returns to the caller
C12_GuideFailureAbsorbed ==
  [][GuideFailedStep =>
       /\ messages' =
            Append(messages,
                   [role |-> "assistant", content |-> FallbackContent])
       /\ learningItems' = learningItems
       /\ activeItemId' = activeItemId
       /\ nextAction' = nextAction
       /\ pc' = "idle"]_vars

\* the part of C12 that is not about the transcript before the apology
C12_FailureFrame ==
  [][GuideFailedStep =>
       /\ messages' # <<>>
       /\ messages'[Len(messages')] =
            [role |-> "assistant", content |-> FallbackContent]
       /\ learningItems' = learningItems
       /\ activeItemId' = activeItemId
       /\ nextAction' = nextAction
       /\ pc' = "idle"]_vars

\* ------------------------------------------------------------------------
\* C13
\* ------------------------------------------------------------------------

\* C13: a pass that enters Assess on a GraphState whose activeItemId is null
\* or is not a key of learningItems ends the session: Assess changes nothing
\* (it creates no item, guesses no goal, calls no collaborator), Decide
\* returns end, and Guide does not run
C13_MissingStateEnds ==
  (Ran("assess") /\ ~Resolves(passIn)) =>
    /\ learningItems = passIn.learningItems
    /\ activeItemId = passIn.activeItemId
    /\ lastUserInput = passIn.lastUserInput
    /\ messages = passIn.messages
    /\ calls = <<>>
    /\ ~Ran("guide")
    /\ \/ pc = "decide" /\ nextAction = passIn.nextAction
       \/ /\ pc = "idle"
          /\ trace = <<"assess", "decide">>
          /\ nextAction = "end"

\* a pass that entered Assess with an activeItemId that is not a key of
\* learningItems, and with nextAction = guide, has returned
C13_Witness ==
  /\ Returned
  /\ Ran("assess")
  /\ passIn.activeItemId = generateItemId(2)
  /\ passIn.learningItems # EmptyObject
  /\ passIn.nextAction = "guide"
  /\ nextAction = "end"

\* ------------------------------------------------------------------------
\* C14
\* ------------------------------------------------------------------------

\* C14: the assessment is accepted exactly when the collaborator answered
\* with an object whose cognitiveState is one of the 5 labels and whose
\* reasoning is not empty, and then with that very label; a thrown call, an
\* empty answer, an answer that does not parse and a label outside the set
\* are failures, after which Assess leaves level, intent, status and
\* cognitiveState of the item as they were
C14_AssessmentAccepted ==
  SubsequentTurn =>
    LET resp == calls[1].response
        result == calls[1].result
        old == ItemOf(passIn)
        new == ItemOf(State)
        valid == /\ resp.kind = "json"
                 /\ resp.cognitiveState \in CognitiveStateLabel
                 /\ resp.reasoning # <<>>
    IN /\ result.ok <=> valid
       /\ result.ok =>
            /\ result.value.cognitiveState = resp.cognitiveState
            /\ new.cognitiveState.summary = resp.cognitiveState
       /\ ~result.ok =>
            /\ new.currentLevel = old.currentLevel
            /\ new.nextIntent = old.nextIntent
            /\ new.status = old.status
            /\ new.cognitiveState = old.cognitiveState

\* Assess has handled an answer whose label is outside the closed set, on an
\* item at level Structured
C14_Witness ==
  /\ SubsequentTurn
  /\ calls[1].response.kind = "json"
  /\ calls[1].response.cognitiveState = "confused"
  /\ calls[1].response.reasoning # <<>>
  /\ ~calls[1].result.ok
  /\ ItemOf(State).currentLevel = Structured

\* ------------------------------------------------------------------------
\* C15
\* ------------------------------------------------------------------------

\* the goal extraction of the first-turn transition failed: the call threw
\* or answered without content
ExtractionFailed ==
  FirstTurn /\ calls[1].response.kind \in {"throw", "empty"}

PhaseByPriority(item) ==
  LET evidenceCount == Len(item.recentEvidence)
      flag == IF item.status.phase = "awaiting_topic" THEN FALSE
              ELSE item.status.hasBasicInfo
  IN IF ~flag /\ evidenceCount <= 2 THEN "info_collection"
     ELSE IF item.currentLevel = 1
     THEN (IF evidenceCount <= 3 THEN "understanding" ELSE "clarification")
     ELSE IF item.currentLevel = 2 THEN "structured"
     ELSE "transfer"

\* Guide has built its system prompt for an item whose topic is set
GuidedOnTopic ==
  /\ Ran("guide")
  /\ Resolves(State)
  /\ ItemOf(State).goal # AWAITING_TOPIC_GOAL

\* C16: determineTeachingPhase follows the priority order: info_collection
\* while hasBasicInfo is false (awaiting_topic counts as false) and there
\* are at most 2 evidence entries, even above IntuitionOnly; otherwise at
\* IntuitionOnly understanding up to 3 entries and clarification beyond;
\* otherwise structured at CanDescribe and transfer at Structured and
\* Transferable. It holds of every stored item and of the template Guide
\* picks for the active item.
C16_PhasePriority ==
  /\ \A id \in DOMAIN learningItems :
       determineTeachingPhase(learningItems[id]) =
         PhaseByPriority(learningItems[id])
  /\ GuidedOnTopic =>
       calls[Len(calls)].arg.system.template =
         PhaseByPriority(ItemOf(State))

\* Guide has used the info collection template for an item at level
\* Structured: rule 1 has won over the level
C16_Witness ==
  /\ GuidedOnTopic
  /\ Returned
  /\ ItemOf(State).currentLevel = Structured
  /\ ItemOf(State).status = [phase |-> "learning", hasBasicInfo |-> FALSE]
  /\ Len(ItemOf(State).recentEvidence) = 2
  /\ calls[Len(calls)].arg.system.template = "info_collection"

\* ------------------------------------------------------------------------
\* C17
\* ------------------------------------------------------------------------

\* C17: learning items are changed by Assess only and are never deleted:
\* no step removes a key of learningItems or changes a stored item unless it
\* is the Assess step; Guide, Decide and a Select that finds its active item
\* leave learningItems as it was; Decide changes nothing but nextAction
C17_OnlyAssessMutates ==
  [][/\ DOMAIN learningItems \subseteq DOMAIN learningItems'
     /\ \A id \in DOMAIN learningItems :
          learningItems'[id] # learningItems[id] => pc = "assess"
     /\ pc = "guide" => learningItems' = learningItems
     /\ pc = "decide" =>
          /\ learningItems' = learningItems
          /\ activeItemId' = activeItemId
          /\ lastUserInput' = lastUserInput
          /\ messages' = messages
     /\ (pc = "selectItem" /\ Resolves(State)) =>
          learningItems' = learningItems]_vars

\* a pass in which Assess changed the active item and Decide and Guide ran
\* after it has returned
C17_Witness ==
  /\ Returned
  /\ trace = <<"assess", "decide", "guide">>
  /\ ItemOf(State) # ItemOf(passIn)

\* a Select that opened an item next to a stored one has returned
C17_WitnessKept ==
  /\ Returned
  /\ trace = <<"selectItem", "guide">>
  /\ passIn.learningItems # EmptyObject
  /\ DOMAIN learningItems # DOMAIN passIn.learningItems

\* ------------------------------------------------------------------------
\* C19
\* ------------------------------------------------------------------------

\* Decide has ended the session on an item it could resolve
NaturalFinish ==
  Returned /\ Ran("decide") /\ nextAction = "end" /\ Resolves(passIn)

\* C19: "finished but no transcript" does not arise: whenever a pass of a
\* session started from createInitialState() returns with nextAction = end,
\* messages is not empty, and when Decide ended the session on a resolvable
\* item, that active item is at level 4
C19_FinishedHasTranscript ==
  /\ (Returned /\ nextAction = "end") => messages # <<>>
  /\ NaturalFinish =>
       /\ Resolves(State)
       /\ ItemOf(State).currentLevel = 4

\* the first pass of a session is given an utterance, finds no item and ends
C19_Witness ==
  /\ Returned
  /\ nextAction = "end"
  /\ passIn.learningItems = EmptyObject
  /\ passIn.messages = <<[role |-> "user", content |-> <<" ", "a">>]>>
  /\ messages = passIn.messages

\* a session has finished on an item at level 4
C19_WitnessNatural ==
  /\ NaturalFinish
  /\ ItemOf(State).currentLevel = 4
  /\ Len(messages) > 1

\* ------------------------------------------------------------------------
\* C20
\* ------------------------------------------------------------------------

\* the status flag of an item, awaiting_topic counting as false
StatusFlag(item) ==
  IF item.status.phase = "awaiting_topic" THEN FALSE
  ELSE item.status.hasBasicInfo

\* C20: hasCollectedBasicInfo, whose result a successful assessment stores
\* as hasBasicInfo, is true whenever the status flag is true, and otherwise
\* exactly when the goal is not the sentinel, is longer than the minimum
\* length and there are at least 2 evidence entries
C20_BasicInfoAsStated ==
  AssessSucceeded =>
    LET old == ItemOf(passIn) IN
    ItemOf(State).status.hasBasicInfo =
      (\/ StatusFlag(old)
       \/ /\ old.goal # AWAITING_TOPIC_GOAL
          /\ Len(old.goal) > 20
          /\ Len(old.recentEvidence) >= 2)

\* C20, amended: hasCollectedBasicInfo is true whenever the status flag is
\* true, and otherwise exactly when the goal is longer than 20 characters,
\* does not contain 等待, contains 的 or 课, and there are at least 2
\* evidence entries
C20_BasicInfoHeuristic ==
  /\ AssessSucceeded =>
       LET old == ItemOf(passIn) IN
       ItemOf(State).status.hasBasicInfo =
         (\/ StatusFlag(old)
          \/ /\ Len(old.goal) > 20
             /\ ~Includes(old.goal, <<"deng", "dai">>)
             /\ Includes(old.goal, <<"de">>) \/ Includes(old.goal, <<"ke">>)
             /\ Len(old.recentEvidence) >= 2)
  /\ \A id \in DOMAIN learningItems :
       LET item == learningItems[id] IN
       hasCollectedBasicInfo(item) =
         (\/ StatusFlag(item)
          \/ /\ Len(item.goal) > 20
             /\ ~Includes(item.goal, <<"deng", "dai">>)
             /\ Includes(item.goal, <<"de">>) \/ Includes(item.goal, <<"ke">>)
             /\ Len(item.recentEvidence) >= 2)

\* a successful assessment has turned a status flag of false into true
C20_Witness ==
  /\ AssessSucceeded
  /\ ItemOf(passIn).status = [phase |-> "collecting_info",
                              hasBasicInfo |-> FALSE]
  /\ ItemOf(passIn).goal = LongGoal
  /\ Len(ItemOf(passIn).recentEvidence) = 2
  /\ ItemOf(State).status = [phase |-> "learning", hasBasicInfo |-> TRUE]

\* ------------------------------------------------------------------------
\* C18
\* ------------------------------------------------------------------------

\* the answers the collaborators gave in the last pass
AnswerOf(fn, responses) ==
  IF \E i \in 1..Len(calls) : calls[i].fn = fn
  THEN calls[CHOOSE i \in 1..Len(calls) : calls[i].fn = fn].response
  ELSE CHOOSE r \in responses : TRUE

\* the GraphState a pass resumed at Assess from state returns, when
\* Date.now() reads now and the collaborators answer as in the last pass
Replay(state, now) ==
  LET assessed ==
        ApplyUpdate(state,
                    assessNode(state, now,
                               AnswerOf("extractLearningGoal",
                                        ExtractResponses),
                               AnswerOf("llmBasedAssessment",
                                        AssessResponses)).delta)
      decided == ApplyUpdate(assessed, decideNode(assessed))
  IN IF decisionCondition(decided) = "guide"
     THEN ApplyUpdate(decided,
                      guideNode(decided,
                                AnswerOf("guide", GuideResponses)).delta)
     ELSE decided

\* the clock readings of the second resumption: that of the last pass, and
\* a later one
ClockReadings == {clock, clock + 1}

\* a pass that started at Assess has returned
ResumedAtAssess == Returned /\ Ran("assess")

Restamp(state, id, now) ==
  [state EXCEPT
     !.learningItems[id].recentEvidence[
        Len(state.learningItems[id].recentEvidence)].timestamp = now]

MissingPartsOf(label) ==
  CASE label = "too_vague" -> "more_specific_expression"
    [] label = "intuition_but_unclear" -> "concept_boundaries"
    [] label = "can_describe_with_structure" -> "mechanism_details"
    [] label = "fully_structured" -> "application_scenarios"
    [] label = "transferable" -> "none"

\* C21: a successful subsequent-turn assessment replaces cognitiveState as
\* a whole by summary = the returned label and missingParts = the fixed text
\* of that label (no member of the old cognitiveState, misconceptions
\* included, survives), sets status to learning with hasBasicInfo =
\* hasCollectedBasicInfo of the item as it was before the pass, and appends
\* exactly one evidence entry, which holds lastUserInput
C21_SuccessfulAssessment ==
  AssessSucceeded =>
    LET old == ItemOf(passIn)
        new == ItemOf(State)
        label == calls[1].result.value.cognitiveState
        entry == [source |-> "user_input", content |-> passIn.lastUserInput,
                  timestamp |-> clock]
    IN /\ DOMAIN new.cognitiveState = {"summary", "missingParts"}
       /\ new.cognitiveState.summary = label
       /\ new.cognitiveState.missingParts = MissingPartsOf(label)
       /\ new.status = [phase |-> "learning",
                        hasBasicInfo |-> hasCollectedBasicInfo(old)]
       /\ new.recentEvidence =
            SliceLast(Append(old.recentEvidence, entry), 5)
       /\ Len(old.recentEvidence) < 5 =>
            new.recentEvidence = Append(old.recentEvidence, entry)

\* an item whose cognitiveState listed misconceptions has been assessed as
\* transferable
C21_Witness ==
  /\ AssessSucceeded
  /\ "misconceptions" \in DOMAIN ItemOf(passIn).cognitiveState
  /\ calls[1].result.value.cognitiveState = "transferable"
  /\ ItemOf(State).cognitiveState =
       [summary |-> "transferable", missingParts |-> "none"]
  /\ ItemOf(passIn).status = [phase |-> "collecting_info",
                              hasBasicInfo |-> FALSE]
  /\ ItemOf(State).status = [phase |-> "learning", hasBasicInfo |-> TRUE]

\* ------------------------------------------------------------------------
\* C22
\* ------------------------------------------------------------------------

\* Select has opened an item in the running / last pass
SelectCreated == Ran("selectItem") /\ learningItems # passIn.learningItems

\* C22: a session holds at most one learning item: learningItems never has
\* more than one key, whatever the order of passes with and without an
\* utterance, and Select opens an item only in a session that has none
C22_AtMostOneItem ==
  /\ Cardinality(DOMAIN learningItems) <= 1
  /\ SelectCreated => passIn.learningItems = EmptyObject

\* Select has run in the fourth pass of a session that started with an
\* utterance, and the session still holds the one item
C22_Witness ==
  /\ Returned
  /\ clock = 4
  /\ trace = <<"selectItem", "guide">>
  /\ passIn.learningItems # EmptyObject
  /\ passIn.messages[1].role = "user"
  /\ Cardinality(DOMAIN learningItems) = 1


\* ------------------------------------------------------------------------
\* C23
\* ------------------------------------------------------------------------

\* the running / last pass called the guidance collaborator
Guided == Ran("guide") /\ Resolves(State)
GuideCall == calls[Len(calls)]
TopicLess == GuideCall.arg.system = [template |-> "INITIAL_PROMPT"]

\* an utterance with a non-whitespace character has been handed to the graph
Uttered ==
  \E i \in 1..Len(messages) :
    messages[i].role = "user" /\ Truthy(trim(messages[i].content))

\* C23: Guide sends the fixed topic-less prompt at the higher temperature
\* exactly when the active item's goal is the sentinel, and otherwise the
\* template of the phase determineTeachingPhase returns at the lower
\* temperature; while no goal extraction has returned the sentinel, the
\* topic-less prompt goes out only in passes that run no Assess, on an item
\* without evidence and a transcript without a learner's utterance.
C23_GuidePrompt ==
  Guided =>
    LET item == ItemOf(State) IN
    /\ TopicLess <=> item.goal = AWAITING_TOPIC_GOAL
    /\ GuideCall.arg.temperature = INITIAL_TEMPERATURE <=> TopicLess
    /\ ~TopicLess =>
         /\ GuideCall.arg.system.template = determineTeachingPhase(item)
         /\ GuideCall.arg.temperature = NORMAL_TEMPERATURE
    /\ (TopicLess /\ ~extractedSentinel) =>
         /\ item.recentEvidence = <<>>
         /\ ~Ran("assess")
         /\ ~Uttered

C23_Witness == Guided /\ TopicLess /\ ~extractedSentinel /\ loop = "opening"
C23_WitnessTopic ==
  Guided /\ ~TopicLess /\ GuideCall.arg.system.template = "understanding"
C23_WitnessSentinel == Guided /\ TopicLess /\ extractedSentinel /\ Uttered


\* ------------------------------------------------------------------------
\* C24
\* ------------------------------------------------------------------------

Unclocked(item) ==
  [item EXCEPT
     !.id = <<"item_">>,
     !.recentEvidence = [i \in 1..Len(@) |-> [@[i] EXCEPT !.timestamp = 0]]]

\* state without the clock readings in the item id and the timestamps
UnclockedState(state) ==
  [state EXCEPT
     !.activeItemId = IF Resolves(state) THEN <<"item_">> ELSE @,
     !.learningItems = {Unclocked(state.learningItems[k]) :
                          k \in DOMAIN state.learningItems}]

IsCommandLine(l) ==
  \/ toLowerCase(l) \in {QuitLine, ExitLine, StatusLine}
  \/ trim(l) = <<>>

\* C25: in the interactive loop a status, quit or exit command and a blank
\* line start no pass and leave the session's GraphState as it is; every
\* other line starts one pass, with lastUserInput set to the line and one
\* user message holding the line appended to messages, and no second pass
\* starts before that one has returned.
C25_LoopLines ==
  [][/\ (loop = "ask" /\ nextAction # "end") =>
          IF IsCommandLine(line')
          THEN /\ State' = State
               /\ clock' = clock
               /\ pc' = "idle"
               /\ loop' \in {"ask", "closed"}
          ELSE /\ clock' = clock + 1
               /\ pc' = "assess"
               /\ loop' = "pass"
               /\ lastUserInput' = line'
               /\ messages' =
                    Append(messages, [role |-> "user", content |-> line'])
               /\ learningItems' = learningItems
               /\ activeItemId' = activeItemId
     /\ loop = "pass" => clock' = clock]_vars

\* a line that only resembles a command has started a pass
C25_Witness ==
  /\ loop = "pass"
  /\ pc = "assess"
  /\ line = QuitLine \o <<" ">>
  /\ lastUserInput = line
  /\ round = 2

\* the status command in upper case, after two passes
C25_WitnessCommand ==
  /\ loop = "ask"
  /\ line = <<"S", "T", "A", "T", "U", "S">>
  /\ round = 3


\* ------------------------------------------------------------------------
\* C26
\* ------------------------------------------------------------------------

\* a pass has been started and no node has run yet
PassStarts == pc # "idle" /\ trace = <<>>

HasNonWhitespace(s) == \E i \in 1..Len(s) : ~IsSpace(s[i])

\* the caller hands back the state the last pass returned
ReinvokeStep == pc = "idle" /\ clock > 0 /\ pc' # "idle" /\ passIn' = State

\* C26: a pass starts at Assess if lastUserInput has a non-whitespace
\* character and at Select otherwise; no node step changes lastUserInput;
\* hence a pass started on the returned state of a pass that entered at
\* Assess, without new input, enters at Assess again with the same input.
C26_EntryRouting ==
  /\ [](PassStarts =>
          /\ pc \in {"assess", "selectItem"}
          /\ pc = "assess" <=> HasNonWhitespace(lastUserInput))
  /\ [][/\ pc # "idle" => lastUserInput' = lastUserInput
        /\ (ReinvokeStep /\ trace[1] = "assess") =>
              /\ pc' = "assess"
              /\ lastUserInput' = passIn.lastUserInput]_vars

\* the re-invoked pass has assessed the utterance of the pass before once
\* more: the item holds it twice
C26_Witness ==
  /\ Returned
  /\ passIn.lastUserInput = lastUserInput
  /\ Ran("assess") /\ Resolves(State)
  /\ Len(ItemOf(State).recentEvidence) = 2
  /\ Len(ItemOf(passIn).recentEvidence) = 1
  /\ ItemOf(passIn).recentEvidence[1].content = lastUserInput
  /\ ItemOf(State).recentEvidence[2].content = lastUserInput
  /\ passIn.messages[Len(passIn.messages)].role = "assistant"


\* ------------------------------------------------------------------------
\* C27
\* ------------------------------------------------------------------------

PhaseRank(phase) ==
  CASE phase = "awaiting_topic" -> 1
    [] phase = "collecting_info" -> 2
    [] phase = "learning" -> 3

\* the step is Assess taking the first utterance / assessing a later one
\* with success
FirstTurnStep ==
  /\ pc = "assess" /\ calls' # <<>>
  /\ calls'[1].fn = "extractLearningGoal"
AssessSucceededStep ==
  /\ pc = "assess" /\ calls' # <<>>
  /\ calls'[1].fn = "llmBasedAssessment" /\ calls'[1].result.ok

\* C27: the status phase of an item moves forward only, along
\* awaiting_topic -> collecting_info -> learning: no step takes it back,
\* collecting_info is entered from awaiting_topic and only by the
\* first-turn transition, learning from collecting_info and only by a
\* successful assessment of a later turn; an item is opened in
\* awaiting_topic, and in awaiting_topic its status has no hasBasicInfo.
C27_PhaseForward ==
  /\ [](\A id \in DOMAIN learningItems :
          /\ learningItems[id].status.phase \in
               {"awaiting_topic", "collecting_info", "learning"}
          /\ learningItems[id].status.phase = "awaiting_topic" =>
               DOMAIN learningItems[id].status = {"phase"})
  /\ [][\A id \in DOMAIN learningItems' :
          LET new == learningItems'[id].status.phase IN
          IF id \notin DOMAIN learningItems THEN new = "awaiting_topic"
          ELSE LET old == learningItems[id].status.phase IN
               /\ PhaseRank(new) >= PhaseRank(old)
               /\ (new = "collecting_info" /\ old # new) =>
                    old = "awaiting_topic" /\ FirstTurnStep
               /\ (new = "learning" /\ old # new) =>
                    old = "collecting_info" /\ AssessSucceededStep
               /\ (FirstTurnStep /\ id = activeItemId) =>
                    new = "collecting_info"
       ]_vars

\* the item has gone through all three phases: it is in learning, and the
\* pass that put it there found it in collecting_info
C27_Witness ==
  /\ Returned /\ AssessSucceeded
  /\ ItemOf(passIn).status.phase = "collecting_info"
  /\ ItemOf(State).status.phase = "learning"

\* a failed assessment has left the item in collecting_info
C27_WitnessKept ==
  /\ Returned /\ AssessFailed
  /\ ItemOf(State).status.phase = "collecting_info"


\* ------------------------------------------------------------------------
\* C28
\* ------------------------------------------------------------------------

\* the step is Guide calling the guidance collaborator
GuideCallStep ==
  /\ pc = "guide"
  /\ Len(calls') = Len(calls) + 1
  /\ calls'[Len(calls')].fn = "guide"

\* C28: the guidance collaborator receives, after the system prompt, the
\* last 4 entries of messages (all of them if there are fewer), in their
\* order and with their roles and contents; no older entry is sent, and
\* the step removes nothing from messages.
C28_ContextWindow ==
  [][GuideCallStep =>
       LET sent == calls'[Len(calls')].arg.context
           n == IF Len(messages) < 4 THEN Len(messages) ELSE 4
       IN /\ Len(sent) = n
          /\ \A i \in 1..n : sent[i] = messages[Len(messages) - n + i]
          /\ calls'[Len(calls')].arg.system = buildSystemPrompt(ItemOf(State))
          /\ IsPrefix(messages, messages')
          /\ MAX_CONTEXT_MESSAGES = 4]_vars

\* Guide has sent 4 entries of a longer transcript, learner's and tutor's
\* among them, and the transcript has kept its first entry
C28_Witness ==
  /\ Guided
  /\ Len(GuideCall.arg.context) = 4
  /\ Len(passIn.messages) > 4
  /\ \E i, j \in 1..4 :
       /\ GuideCall.arg.context[i].role = "user"
       /\ GuideCall.arg.context[j].role = "assistant"
  /\ messages[1] = passIn.messages[1]

\* the opening Guide has sent the system prompt alone
C28_WitnessShort == Guided /\ GuideCall.arg.context = <<>>


\* ------------------------------------------------------------------------
\* C29
\* ------------------------------------------------------------------------

\* C29: in every session from createInitialState() an item's nextIntent
\* and currentLevel agree: test_transfer exactly at Structured and above,
\* introduce_structure exactly at CanDescribe, and elicit_intuition or
\* force_clarification exactly at IntuitionOnly; the intent becomes
\* force_clarification only by a successful assessment with the label
\* intuition_but_unclear of an item that was at IntuitionOnly already.
C29_IntentMatchesLevel ==
  /\ [](\A id \in DOMAIN learningItems :
          LET item == learningItems[id] IN
          /\ item.nextIntent = "test_transfer" <=>
               item.currentLevel >= Structured
          /\ item.nextIntent = "introduce_structure" <=>
               item.currentLevel = CanDescribe
          /\ item.nextIntent \in {"elicit_intuition", "force_clarification"}
               <=> item.currentLevel = IntuitionOnly)
  /\ [][\A id \in DOMAIN learningItems' :
          (/\ learningItems'[id].nextIntent = "force_clarification"
           /\ \/ id \notin DOMAIN learningItems
              \/ learningItems[id].nextIntent # "force_clarification"
              \/ AssessSucceededStep /\ id = activeItemId)
          => /\ id \in DOMAIN learningItems
             /\ AssessSucceededStep
             /\ calls'[1].result.value.cognitiveState
                  = "intuition_but_unclear"
             /\ learningItems[id].currentLevel = IntuitionOnly]_vars

\* the intent is force_clarification after a pass that found the item at
\* IntuitionOnly
C29_Witness ==
  /\ Returned /\ AssessSucceeded
  /\ ItemOf(State).nextIntent = "force_clarification"
  /\ ItemOf(passIn).currentLevel = IntuitionOnly

\* intuition_but_unclear assessed on an item above IntuitionOnly: the item
\* falls back to IntuitionOnly with elicit_intuition
C29_WitnessFallback ==
  /\ Returned /\ AssessSucceeded
  /\ calls[1].result.value.cognitiveState = "intuition_but_unclear"
  /\ ItemOf(passIn).currentLevel = Structured
  /\ ItemOf(State).nextIntent = "elicit_intuition"
  /\ ItemOf(State).currentLevel = IntuitionOnly

\* a failed assessment has left test_transfer at Structured
C29_WitnessFailed ==
  /\ Returned /\ AssessFailed
  /\ ItemOf(State).nextIntent = "test_transfer"
  /\ ItemOf(State).currentLevel = Structured


\* ------------------------------------------------------------------------
\* C30
\* ------------------------------------------------------------------------

\* the pass has assessed an utterance and Guide has answered it
GuidedAfterUtterance == Guided /\ Ran("assess")

\* C30: in every session from createInitialState(), an item whose status
\* has hasBasicInfo = true holds at least 3 evidence entries; so an item
\* with a goal and 1 or 2 evidence entries is in phase info_collection
\* whatever its level, and the guidance that answers the first and the
\* second utterance on such an item uses the info_collection template.
C30_InfoCollectionFirst ==
  /\ \A id \in DOMAIN learningItems :
       LET item == learningItems[id] IN
       /\ ("hasBasicInfo" \in DOMAIN item.status
             /\ item.status.hasBasicInfo = TRUE)
            => Len(item.recentEvidence) >= 3
       /\ (item.goal # AWAITING_TOPIC_GOAL
             /\ Len(item.recentEvidence) \in {1, 2})
            => determineTeachingPhase(item) = "info_collection"
  /\ (GuidedAfterUtterance
        /\ ItemOf(State).goal # AWAITING_TOPIC_GOAL
        /\ Len(ItemOf(State).recentEvidence) \in {1, 2})
       => GuideCall.arg.system.template = "info_collection"

\* the second utterance was assessed at Structured and answered with the
\* info_collection template
C30_Witness ==
  /\ GuidedAfterUtterance
  /\ AssessSucceeded
  /\ Len(ItemOf(State).recentEvidence) = 2
  /\ ItemOf(State).currentLevel = Structured
  /\ GuideCall.arg.system.template = "info_collection"

\* the third utterance has set hasBasicInfo
C30_WitnessThird ==
  /\ Returned /\ AssessSucceeded
  /\ ItemOf(State).status.hasBasicInfo = TRUE
  /\ Len(ItemOf(State).recentEvidence) = 3

\* the first utterance was answered with the info_collection template
C30_WitnessFirstTurn ==
  /\ GuidedAfterUtterance /\ FirstTurn
  /\ GuideCall.arg.system.template = "info_collection"


\* ------------------------------------------------------------------------
\* C31
\* ------------------------------------------------------------------------

\* C31: hasBasicInfo is monotone: no step of a session, whether an
\* assessment succeeds or fails, takes an item whose status has
\* hasBasicInfo = true to a status without it or with hasBasicInfo = false.
C31_BasicInfoMonotone ==
  [][\A id \in DOMAIN learningItems :
       StatusFlag(learningItems[id]) =>
         /\ id \in DOMAIN learningItems'
         /\ StatusFlag(learningItems'[id])]_vars

\* the flag was set when the pass began, and the assessment succeeded
C31_Witness ==
  /\ Returned /\ AssessSucceeded
  /\ StatusFlag(ItemOf(passIn))
  /\ StatusFlag(ItemOf(State))

\* the flag was set when the pass began, and the assessment failed
C31_WitnessFailed ==
  /\ Returned /\ AssessFailed
  /\ StatusFlag(ItemOf(passIn))
  /\ StatusFlag(ItemOf(State))


\* ------------------------------------------------------------------------
\* C32
\* ------------------------------------------------------------------------

\* C32: no step lowers an item's evidence count; an Assess step on a
\* state whose active item resolves takes the count from n to
\* min(n + 1, 5); and an item whose derived teaching phase is not
\* info_collection is never in info_collection again.
C32_EvidenceGrows ==
  [][/\ \A id \in DOMAIN learningItems :
          /\ id \in DOMAIN learningItems'
          /\ Len(learningItems'[id].recentEvidence)
               >= Len(learningItems[id].recentEvidence)
          /\ determineTeachingPhase(learningItems[id]) # "info_collection"
               => determineTeachingPhase(learningItems'[id])
                    # "info_collection"
     /\ (pc = "assess" /\ Resolves(State)) =>
          LET n == Len(ItemOf(State).recentEvidence) IN
          Len(learningItems'[activeItemId].recentEvidence) =
            IF n + 1 < MAX_EVIDENCE_COUNT THEN n + 1 ELSE MAX_EVIDENCE_COUNT
    ]_vars

\* an Assess on an item with 5 entries has left it with 5
C32_Witness ==
  /\ Returned /\ Ran("assess") /\ Resolves(passIn)
  /\ Len(ItemOf(passIn).recentEvidence) = 5
  /\ Len(ItemOf(State).recentEvidence) = 5
  /\ ItemOf(State).recentEvidence # ItemOf(passIn).recentEvidence

\* the third utterance has taken the item out of info_collection although
\* its flag is not set
C32_WitnessLeft ==
  /\ Returned /\ Ran("assess") /\ Resolves(passIn)
  /\ determineTeachingPhase(ItemOf(passIn)) = "info_collection"
  /\ determineTeachingPhase(ItemOf(State)) # "info_collection"
  /\ ~StatusFlag(ItemOf(State))


\* ------------------------------------------------------------------------
\* C33
\* ------------------------------------------------------------------------

\* the step is Assess handling the utterance for the item id
AssessHandles(id) ==
  pc = "assess" /\ Resolves(State) /\ id = activeItemId

\* C33: in every session from createInitialState(), an item is in
\* awaiting_topic exactly when its recentEvidence is empty, and exactly
\* from the step that opens it to the first Assess step that handles an
\* utterance for it; in awaiting_topic its goal is the sentinel; and the
\* assessment collaborator is never called for an item in awaiting_topic.
C33_AwaitingTopic ==
  /\ [](\A id \in DOMAIN learningItems :
          LET item == learningItems[id] IN
          /\ item.status.phase = "awaiting_topic" <=>
               item.recentEvidence = <<>>
          /\ item.status.phase = "awaiting_topic" =>
               item.goal = AWAITING_TOPIC_GOAL)
  /\ [][\A id \in DOMAIN learningItems' :
          LET new == learningItems'[id] IN
          IF id \notin DOMAIN learningItems
          THEN ~AssessHandles(id) /\ new.status.phase = "awaiting_topic"
          ELSE IF AssessHandles(id)
          THEN /\ new.status.phase # "awaiting_topic"
               /\ (calls'[1].fn = "llmBasedAssessment") <=>
                    (learningItems[id].status.phase # "awaiting_topic")
          ELSE new.status.phase = "awaiting_topic" <=>
                 learningItems[id].status.phase = "awaiting_topic"
       ]_vars

\* Assess has taken the first utterance for an item in awaiting_topic, by
\* goal extraction
C33_Witness ==
  /\ Returned /\ FirstTurn
  /\ ItemOf(passIn).status.phase = "awaiting_topic"
  /\ ItemOf(passIn).recentEvidence = <<>>
  /\ ItemOf(State).status.phase = "collecting_info"
  /\ Len(ItemOf(State).recentEvidence) = 1

\* the assessment collaborator is called for an item whose goal is still
\* the sentinel text, which goal extraction has answered
C33_WitnessSentinel ==
  /\ Returned /\ SubsequentTurn
  /\ ItemOf(passIn).goal = AWAITING_TOPIC_GOAL
  /\ ItemOf(passIn).status.phase = "collecting_info"


\* ------------------------------------------------------------------------
\* C34
\* ------------------------------------------------------------------------

\* C34: in every session from createInitialState(), the active item
\* resolves whenever Guide is about to run, so Guide always calls the
\* collaborator and never returns without a message; and every pass that
\* has returned with nextAction = guide has run Guide and has an assistant
\* message, added by the pass, as the last element of messages.
C34_GuideAlwaysSpeaks ==
  /\ pc = "guide" => Resolves(State)
  /\ Ran("guide") =>
       /\ calls # <<>>
       /\ calls[Len(calls)].fn = "guide"
       /\ Len(messages) > Len(passIn.messages)
       /\ messages[Len(messages)].role = "assistant"
  /\ (Returned /\ nextAction = "guide") =>
       /\ Ran("guide")
       /\ Len(messages) > Len(passIn.messages)
       /\ messages[Len(messages)].role = "assistant"

\* a pass that went through Decide has returned with nextAction = guide
\* although the guidance collaborator had nothing to say
C34_Witness ==
  /\ Returned /\ nextAction = "guide"
  /\ Ran("decide")
  /\ calls[Len(calls)].fn = "guide"
  /\ calls[Len(calls)].response.kind = "empty"
  /\ messages[Len(messages)].role = "assistant"


\* ------------------------------------------------------------------------
\* C35
\* ------------------------------------------------------------------------

\* C35: the pass that handles the first utterance for an item leaves the
\* item at IntuitionOnly, so Decide returns guide and the pass ends, after
\* Guide, with nextAction = guide; a pass in which Decide ends the session
\* on a resolvable item is therefore a later-turn pass, and the item holds
\* at least 2 evidence entries after it.
C35_FirstTurnGoesOn ==
  /\ FirstTurn =>
       /\ ItemOf(State).currentLevel = IntuitionOnly
       /\ Ran("decide") => nextAction = "guide"
       /\ Returned => Ran("guide") /\ nextAction = "guide"
  /\ NaturalFinish =>
       /\ SubsequentTurn
       /\ Len(ItemOf(State).recentEvidence) >= 2

\* the first-turn pass has returned
C35_Witness ==
  /\ Returned /\ FirstTurn
  /\ nextAction = "guide"
  /\ trace = <<"assess", "decide", "guide">>

\* the session has ended in the pass of the second utterance
C35_WitnessSecond ==
  /\ NaturalFinish
  /\ Len(ItemOf(State).recentEvidence) = 2


\* ------------------------------------------------------------------------
\* C36
\* ------------------------------------------------------------------------

\* the pass has returned after Decide returned end
EndedByDecide == Returned /\ Ran("decide") /\ nextAction = "end"

\* C36: a pass in which Decide returns end adds no message: the messages
\* it returns are the messages supplied, which end with the learner's
\* utterance; activeItemId and lastUserInput are as supplied, and
\* learningItems differs from the supplied one at most in the entry of
\* the active item.
C36_EndAddsNothing ==
  EndedByDecide =>
    /\ trace = <<"assess", "decide">>
    /\ messages = passIn.messages
    /\ messages # <<>>
    /\ messages[Len(messages)] =
         [role |-> "user", content |-> passIn.lastUserInput]
    /\ activeItemId = passIn.activeItemId
    /\ lastUserInput = passIn.lastUserInput
    /\ DOMAIN learningItems = DOMAIN passIn.learningItems
    /\ \A id \in DOMAIN learningItems :
         id # activeItemId => learningItems[id] = passIn.learningItems[id]

\* the session has ended on an item at Transferable; the pass has changed
\* the item and nextAction and nothing else
C36_Witness ==
  /\ EndedByDecide
  /\ Resolves(passIn)
  /\ passIn.nextAction = "guide"
  /\ ItemOf(State) # ItemOf(passIn)
  /\ ItemOf(State).currentLevel = Transferable
  /\ Len(messages) > 2


\* ------------------------------------------------------------------------
\* C37
\* ------------------------------------------------------------------------

\* the level the decision table gives for a label
LabelLevel(label) ==
  CASE label \in {"too_vague", "intuition_but_unclear"} -> IntuitionOnly
    [] label = "can_describe_with_structure" -> CanDescribe
    [] label = "fully_structured" -> Structured
    [] label = "transferable" -> Transferable

\* the level of the active item after an Assess of one more utterance on
\* state, with the assessment collaborator answering assessResp
LevelAfterAssess(state, assessResp) ==
  LET r == assessNode([state EXCEPT !.lastUserInput = <<"a">>], clock + 1,
                      [kind |-> "empty"], assessResp)
  IN ApplyUpdate(state, r.delta).learningItems[state.activeItemId]
       .currentLevel

\* C37: in the interactive session, once a pass has returned with
\* nextAction = end no further pass starts and the GraphState, the item
\* and its level with it, never changes again; the graph itself does not
\* see to that: an Assess run on the ended state would set the level of
\* the item at Transferable to the level of the new label, a lower one
\* for four of the five labels.
C37_EndIsFinal ==
  /\ [][(pc = "idle" /\ nextAction = "end") =>
          /\ State' = State
          /\ clock' = clock
          /\ pc' = "idle"
          /\ loop' \in {"ask", "closed"}]_vars
  /\ []((pc = "idle" /\ nextAction = "end") =>
          /\ Resolves(State)
          /\ ItemOf(State).currentLevel = Transferable
          /\ \A ar \in AssessResponses :
               LevelAfterAssess(State, ar) =
                 IF llmBasedAssessment(ar).ok
                 THEN LabelLevel(llmBasedAssessment(ar).value.cognitiveState)
                 ELSE Transferable)

\* the session has ended on an item at Transferable and main() has left
\* the loop with the final summary
C37_Witness ==
  /\ loop = "closed"
  /\ nextAction = "end"
  /\ round = 3
  /\ ItemOf(State).currentLevel = Transferable
  /\ toLowerCase(line) \notin {QuitLine, ExitLine}


\* at the graph level: a pass on an ended session has taken the item down
\* from Transferable
C37_WitnessLowered ==
  /\ Returned /\ AssessSucceeded
  /\ passIn.nextAction = "end"
  /\ ItemOf(passIn).currentLevel = Transferable
  /\ ItemOf(State).currentLevel = IntuitionOnly


\* ------------------------------------------------------------------------
\* C38
\* ------------------------------------------------------------------------

\* C38: an Assess step changes nothing but the entry of learningItems
\* under activeItemId: activeItemId, messages, lastUserInput and nextAction
\* stay as they are, learningItems keeps its keys, every other entry is
\* untouched, and the item under activeItemId keeps its id.
C38_AssessFrame ==
  [][pc = "assess" =>
       /\ activeItemId' = activeItemId
       /\ messages' = messages
       /\ lastUserInput' = lastUserInput
       /\ nextAction' = nextAction
       /\ DOMAIN learningItems' = DOMAIN learningItems
       /\ \A id \in DOMAIN learningItems :
            /\ id # activeItemId => learningItems'[id] = learningItems[id]
            /\ learningItems'[id].id = learningItems[id].id]_vars

\* Assess has rewritten the active item of a state that holds a second
\* item, and the second item is as it was
C38_Witness ==
  /\ Ran("assess") /\ Resolves(passIn)
  /\ Cardinality(DOMAIN learningItems) = 2
  /\ ItemOf(State) # ItemOf(passIn)
  /\ \E id \in DOMAIN learningItems :
       id # activeItemId /\ learningItems[id] = passIn.learningItems[id]


\* ------------------------------------------------------------------------
\* C39
\* ------------------------------------------------------------------------

\* the running pass of the loop ends without returning: it stood before one
\* of its nodes and stands nowhere afterwards, and that node has not run
ThrownStep == loop = "pass" /\ pc # "idle" /\ pc' = "idle" /\ trace' = trace

\* the utterance the failed pass was started with, as a message
FailedMessage == [role |-> "user", content |-> line]

\* C39: in the interactive loop a pass that throws leaves the session's
\* GraphState exactly as main() held it before the pass, so the failed
\* utterance is neither the last message nor the content of the last
\* evidence entry nor lastUserInput through that pass, the round counter
\* is not advanced and the loop asks for the next line; while the loop
\* asks, the GraphState is the one main() holds.
C39_ThrowKeepsState ==
  /\ [][ThrownStep =>
          /\ State' = held
          /\ held' = held
          /\ messages' = SubSeq(passIn.messages, 1, Len(passIn.messages) - 1)
          /\ passIn.messages[Len(passIn.messages)] = FailedMessage
          /\ learningItems' = passIn.learningItems
          /\ activeItemId' = passIn.activeItemId
          /\ nextAction' = passIn.nextAction
          /\ round' = round
          /\ clock' = clock
          /\ loop' = "ask"
          /\ nextAction' # "end"]_vars
  /\ [](loop = "ask" => State = held)

\* a pass of the second round threw before Guide, after Assess had
\* recorded the utterance in the running pass, and the loop asks again
\* with the state of one round
C39_Witness ==
  /\ loop = "ask"
  /\ round = 2
  /\ trace = <<"assess", "decide">>
  /\ passIn.messages = Append(messages, FailedMessage)
  /\ Len(ItemOf(State).recentEvidence) = 1
  /\ State = held

\* a pass threw at Assess, and a later pass on the same state returned
C39_WitnessRetried ==
  /\ loop = "ask"
  /\ round = 3
  /\ clock = 4
  /\ Ran("guide")


\* ------------------------------------------------------------------------
\* C40
\* ------------------------------------------------------------------------

\* what determineTeachingPhase may read of an item
PhaseInputs(item) ==
  <<item.status, Len(item.recentEvidence), item.currentLevel>>

\* items that agree with item on status, number of evidence entries and
\* level and differ from it in id, goal, cognitiveState, nextIntent and
\* the entries themselves
Variants(item) ==
  {[item EXCEPT
      !.id = i, !.goal = g, !.cognitiveState = cs, !.nextIntent = ni,
      !.recentEvidence =
         [k \in 1..Len(item.recentEvidence) |-> createEvidence(c, k + t)]]
   : i \in {item.id, generateItemId(3)},
     g \in {AWAITING_TOPIC_GOAL, LongGoal},
     cs \in SampleCognitiveStates,
     ni \in {"elicit_intuition", "test_transfer"},
     c \in {<<"z">>}, t \in {0, ResumeClock}}

\* items of every level, with and without basic info, below and above the
\* evidence counts the function compares with
PhaseProbes ==
  {[createNewLearningItem(generateItemId(1)) EXCEPT
      !.currentLevel = l, !.status = st,
      !.recentEvidence = SampleEvidence(n)]
   : l \in CognitiveLevel,
     st \in {[phase |-> "awaiting_topic"],
             [phase |-> "learning", hasBasicInfo |-> TRUE]},
     n \in {INFO_COLLECTION_MAX_EVIDENCE, UNDERSTANDING_MAX_EVIDENCE + 1}}

\* C40: determineTeachingPhase depends on nothing but the status, the
\* number of evidence entries and the level of its argument: every stored
\* item gets the phase of every item that agrees with it on these three,
\* whatever the id, goal, cognitiveState, nextIntent and evidence contents;
\* no step of a pass changes the phase the function gives to an item, so a
\* second call on an identical item returns what the first one did; and
\* the Guide step, which calls it, leaves every stored item as it was.
C40_PhaseIsPure ==
  /\ [](\A id \in DOMAIN learningItems :
          /\ \A v \in Variants(learningItems[id]) :
               /\ PhaseInputs(v) = PhaseInputs(learningItems[id])
               /\ determineTeachingPhase(v) =
                    determineTeachingPhase(learningItems[id])
          /\ \A id2 \in DOMAIN learningItems :
               PhaseInputs(learningItems[id]) = PhaseInputs(learningItems[id2])
                 => determineTeachingPhase(learningItems[id]) =
                      determineTeachingPhase(learningItems[id2]))
  /\ [][/\ \A item \in PhaseProbes :
             determineTeachingPhase(item)' = determineTeachingPhase(item)
        /\ trace' = Append(trace, "guide") =>
             learningItems' = learningItems]_vars

\* Guide has asked for the phase of an item at Structured whose goal is
\* the default one, and an item that differs from it in every other field
\* has the same phase
C40_Witness ==
  /\ Returned
  /\ GuidedOnTopic
  /\ ItemOf(State).currentLevel = Structured
  /\ ItemOf(State).goal = DEFAULT_GOAL
  /\ Len(ItemOf(State).recentEvidence) = 3
  /\ calls[Len(calls)].arg.system.template = "transfer"
  /\ \E v \in Variants(ItemOf(State)) :
       /\ v.goal # ItemOf(State).goal
       /\ v.recentEvidence # ItemOf(State).recentEvidence
       /\ determineTeachingPhase(v) = "transfer"

====
